---- MODULE Spec2Model ----
(***************************************************************************)
(* Retrieval / evidence pipeline of FacterAI:                              *)
(*   DeduplicatedRetrievalService   (src/src/core/deduplicated_retrieval_service.py) *)
(*   SentenceLevelRetrievalService  (src/src/core/sentence_level_retrieval_service.py) *)
(*   ResponseContextManager         (src/src/core/response_context.py)     *)
(*   TokenOptimizedGenerationService(src/src/core/token_optimized_generation_service.py) *)
(*   UnifiedController              (src/src/core/unified_controller.py)   *)
(*   unified_search route           (src/src/routes/unified_routes.py)     *)
(*                                                                         *)
(* Scores are floats in the source; here they are integers counting units  *)
(* of 0.05 (relation bonus 0.1 per cue = 2 units, priors 0.25/0.15/0.05 =  *)
(* 5/3/1 units).  A pmid is an opaque string in the source, compared only  *)
(* for equality and truthiness; here it is a natural number, 0 standing    *)
(* for the empty string.                                                   *)
(***************************************************************************)
EXTENDS Integers, Sequences, FiniteSets, TLC

\* ---------------------------------------------------------------- bounds
\* longest backend response with full paper profiles
MaxHits == 3
\* longest backend response of plain one-sentence papers
MaxGateHits == 6
\* longest backend response of plain papers of pairwise different documents
MaxLongHits == 13
\* longest title + abstract, in characters
MaxTextLen == 6
\* most pieces a query is put together from
MaxQueryPieces == 4
\* most contexts created in the registry
MaxRequests == 2
\* latest clock reading, in units of 300 s
MaxTime == 4
\* most chunks retrieval selects for the grounded service
MaxChunks == 7
\* most words and phrases a title + abstract is put together from
MaxPhrases == 4

\* ---------------------------------------------------- program constants
max_chunks == 12
min_chunks == 6
min_docs == 3
sl_max_chunks == 15
sl_min_chunks == 3
sl_min_docs == 3
min_evidence_sentences == 3
\* 0.1 per relation cue, in units of 0.05
RelationCueWeight == 2

EmptyPmid == 0
\* JSON null delivered as a hit's score
NullScore == -1
None == [none |-> TRUE]

\* study_type_priors, in dict (insertion) order
study_type_priors ==
  << <<"meta", 5>>, <<"rct", 5>>, <<"systematic review", 5>>,
     <<"human", 3>>, <<"clinical", 3>>, <<"observational", 3>>,
     <<"animal", 1>>, <<"mouse", 1>>, <<"rat", 1>>,
     <<"in vitro", 0>>, <<"cell", 0>> >>

\* ------------------------------------------------------------- helpers
RECURSIVE SumSeq(_)
SumSeq(s) == IF s = <<>> THEN 0 ELSE Head(s) + SumSeq(Tail(s))

RECURSIVE MaxSeq(_)
MaxSeq(s) == IF Len(s) = 1 THEN s[1]
             ELSE LET m == MaxSeq(Tail(s)) IN IF Head(s) >= m THEN Head(s) ELSE m

Range(s) == { s[i] : i \in 1..Len(s) }

Prefix(s, n) == SubSeq(s, 1, IF Len(s) < n THEN Len(s) ELSE n)

\* ------------------------------------------- papers (backend hit records)
\* A sentence of title+abstract as the filter sees it: keep is the outcome
\* of the co-mention test and the inflammation gate, cues the number of
\* relation-cue patterns it matches.
Sentence(keep, cues) == [keep |-> keep, cues |-> cues]

\* paper profiles: score, study-type keywords occurring in the text, sentences
PaperProfiles ==
  { [score |-> 3, kw |-> {}, sents |-> << Sentence(FALSE, 1) >>],
    [score |-> 1, kw |-> {}, sents |-> << Sentence(TRUE, 0) >>],
    [score |-> 0, kw |-> {"rct", "rat"}, sents |-> << Sentence(TRUE, 1) >>],
    [score |-> 1, kw |-> {"rat", "cell"},
       sents |-> << Sentence(TRUE, 2), Sentence(FALSE, 0), Sentence(TRUE, 0) >>],
    [score |-> 7, kw |-> {}, sents |-> << Sentence(TRUE, 0) >>],
    [score |-> NullScore, kw |-> {}, sents |-> << Sentence(TRUE, 0) >>] }

PlainProfiles ==
  { [score |-> 1, kw |-> {}, sents |-> << Sentence(TRUE, 0) >>] }

MkPaper(pmid, prof) ==
  [pmid |-> pmid, score |-> prof.score, kw |-> prof.kw, sents |-> prof.sents]

MaxPmid(ps) == IF ps = <<>> THEN 0
               ELSE MaxSeq([i \in 1..Len(ps) |-> ps[i].pmid])

\* The hits a backend response may continue with.  Pmids are opaque, so a
\* response is taken up to renaming: a hit carries no pmid (0), a pmid seen
\* earlier in the response, or the next unused one.  Responses of full
\* profiles have at most MaxHits hits, responses of plain papers at most
\* MaxGateHits, responses of plain papers that are all of different
\* documents at most MaxLongHits.
IsPlain(ps) == \A i \in 1..Len(ps) : \E prof \in PlainProfiles : ps[i] = MkPaper(ps[i].pmid, prof)

AllDifferent(ps) == \A i \in 1..Len(ps) : ps[i].pmid = i

NextHits(ps) ==
  { MkPaper(p, prof) : p \in 0..(MaxPmid(ps) + 1),
                       prof \in { q \in PaperProfiles \cup PlainProfiles :
                                    \/ Len(ps) < MaxHits
                                    \/ /\ Len(ps) < MaxGateHits
                                       /\ IsPlain(ps)
                                       /\ q \in PlainProfiles } }
  \cup { MkPaper(Len(ps) + 1, prof) :
            prof \in { q \in PlainProfiles :
                         /\ Len(ps) >= MaxGateHits
                         /\ Len(ps) < MaxLongHits
                         /\ IsPlain(ps)
                         /\ AllDifferent(ps) } }

\* ------------------------------------------------ sentence-level filter
RECURSIVE FirstPrior(_, _)
FirstPrior(table, kw) ==
  IF table = <<>> THEN 0
  ELSE IF Head(table)[1] \in kw THEN Head(table)[2]
  ELSE FirstPrior(Tail(table), kw)

\* _get_study_type_prior: the first table key occurring in the paper's text
_get_study_type_prior(paper) == FirstPrior(study_type_priors, paper.kw)

\* indices of the sentences of a paper that pass the co-mention test and gate
RECURSIVE KeptIdx(_, _)
KeptIdx(sents, k) ==
  IF k > Len(sents) THEN <<>>
  ELSE IF sents[k].keep THEN <<k>> \o KeptIdx(sents, k + 1)
  ELSE KeptIdx(sents, k + 1)

\* the EvidenceSentence list built for paper number i (chunk id i)
EvidenceOf(paper, i) ==
  LET kept == KeptIdx(paper.sents, 1)
  IN [j \in 1..Len(kept) |->
        [text |-> kept[j],
         chunk_id |-> i,
         doc_id |-> paper.pmid,
         relation_cue_count |-> paper.sents[kept[j]].cues,
         study_type_prior |-> _get_study_type_prior(paper)]]

Chunk(i, paper) == [id |-> i, pmid_or_doi |-> paper.pmid]

\* variant: total_score computed without the study-type prior
EnhancedChunkOfTotalWithoutPrior(paper, i, withPrior) ==
  LET ev == EvidenceOf(paper, i)
      bonus == SumSeq([j \in 1..Len(ev) |-> ev[j].relation_cue_count])
                 * RelationCueWeight
      prior == IF withPrior
               THEN MaxSeq([j \in 1..Len(ev) |-> ev[j].study_type_prior])
               ELSE 0
  IN [chunk |-> Chunk(i, paper),
      evidence_sentences |-> ev,
      doc_id |-> paper.pmid,
      cross_encoder_score |-> paper.score,
      relation_bonus |-> bonus,
      study_type_prior |-> prior,
      total_score |-> paper.score + bonus,
      evidence_count |-> Len(ev)]

\* the DeduplicatedChunk built for paper number i (it has evidence)
EnhancedChunkOf(paper, i, withPrior) ==
  LET ev == EvidenceOf(paper, i)
      cross == paper.score
      bonus == SumSeq([j \in 1..Len(ev) |-> ev[j].relation_cue_count])
                 * RelationCueWeight
      prior == IF withPrior
               THEN MaxSeq([j \in 1..Len(ev) |-> ev[j].study_type_prior])
               ELSE 0
  IN [chunk |-> Chunk(i, paper),
      evidence_sentences |-> ev,
      doc_id |-> paper.pmid,
      cross_encoder_score |-> cross,
      relation_bonus |-> bonus,
      study_type_prior |-> prior,
      total_score |-> cross + bonus + prior,
      evidence_count |-> Len(ev)]

\* list.sort(key=..., reverse=True) on index lists: idx is a list of
\* positions, keys[i] the sort key of position i.  The sort is stable, so
\* positions with equal keys keep their order.
RECURSIVE InsertDesc(_, _, _)
InsertDesc(sorted, x, keys) ==
  IF sorted = <<>> THEN <<x>>
  ELSE IF keys[Head(sorted)] >= keys[x]
       THEN <<Head(sorted)>> \o InsertDesc(Tail(sorted), x, keys)
       ELSE <<x>> \o sorted

RECURSIVE SortIdxDesc(_, _)
SortIdxDesc(idx, keys) ==
  IF idx = <<>> THEN <<>>
  ELSE InsertDesc(SortIdxDesc(SubSeq(idx, 1, Len(idx) - 1), keys),
                  idx[Len(idx)], keys)

\* a list of chunk records sorted by total_score, highest first
SortChunks(s) ==
  LET order == SortIdxDesc([i \in 1..Len(s) |-> i],
                           [i \in 1..Len(s) |-> s[i].total_score])
  IN [i \in 1..Len(s) |-> s[order[i]]]

\* a paper whose evidence makes the score arithmetic raise TypeError
RaisesInFilter(papers) ==
  \E i \in 1..Len(papers) :
     /\ KeptIdx(papers[i].sents, 1) # <<>>
     /\ papers[i].score = NullScore

RECURSIVE FilterFrom(_, _, _)
FilterFrom(papers, i, withPrior) ==
  IF i > Len(papers) THEN <<>>
  ELSE IF KeptIdx(papers[i].sents, 1) # <<>>
       THEN <<EnhancedChunkOf(papers[i], i, withPrior)>>
              \o FilterFrom(papers, i + 1, withPrior)
       ELSE FilterFrom(papers, i + 1, withPrior)

\* DeduplicatedRetrievalService._apply_sentence_level_filter
_apply_sentence_level_filter(papers) == SortChunks(FilterFrom(papers, 1, TRUE))

\* SentenceLevelRetrievalService._apply_sentence_level_filter (no study prior)
sl_apply_sentence_level_filter(papers) == SortChunks(FilterFrom(papers, 1, FALSE))

\* ------------------------------------------------------- deduplication
\* DeduplicatedChunk objects live in a heap (objs, addressed by position):
\* doc_map holds references, so merging mutates the first chunk of a document
\* in place.  doc_map is a dict: a list of <<doc_id, object>> in insertion order.
RECURSIVE Lookup(_, _)
Lookup(map, d) ==
  IF map = <<>> THEN 0
  ELSE IF Head(map)[1] = d THEN Head(map)[2]
  ELSE Lookup(Tail(map), d)

\* variant: the incoming chunk's score fields always replace the entry's
KeepLatest(entry, chunk) ==
  [entry EXCEPT !.total_score = chunk.total_score,
                !.cross_encoder_score = chunk.cross_encoder_score,
                !.relation_bonus = chunk.relation_bonus,
                !.study_type_prior = chunk.study_type_prior]

\* variant: the scores of the merged chunks add up, like their evidence counts
KeepSummed(entry, chunk) ==
  [entry EXCEPT !.total_score = @ + chunk.total_score]

\* the fields copied when the incoming chunk has the higher score
KeepHighest(entry, chunk) ==
  IF chunk.total_score > entry.total_score
  THEN [entry EXCEPT !.total_score = chunk.total_score,
                     !.cross_encoder_score = chunk.cross_encoder_score,
                     !.relation_bonus = chunk.relation_bonus,
                     !.study_type_prior = chunk.study_type_prior]
  ELSE entry

\* variant: doc_map keyed by the chunk's own id instead of its doc_id
DedupIterationByChunkId(st, o) ==
  LET chunk == st.objs[o]
      t == Lookup(st.doc_map, chunk.chunk.id)
  IN IF t # 0
     THEN LET aggregated ==
                [st.objs[t] EXCEPT
                   !.evidence_sentences = @ \o chunk.evidence_sentences,
                   !.evidence_count = @ + chunk.evidence_count]
          IN [st EXCEPT !.objs[t] = KeepHighest(aggregated, chunk)]
     ELSE [st EXCEPT !.doc_map = Append(@, <<chunk.chunk.id, o>>)]

\* variant: the incoming chunk's evidence goes in front of the entry's
DedupIterationPrepending(st, o) ==
  LET chunk == st.objs[o]
      t == Lookup(st.doc_map, chunk.doc_id)
  IN IF t # 0
     THEN LET aggregated ==
                [st.objs[t] EXCEPT
                   !.evidence_sentences = chunk.evidence_sentences \o @,
                   !.evidence_count = @ + chunk.evidence_count]
          IN [st EXCEPT !.objs[t] = KeepHighest(aggregated, chunk)]
     ELSE [st EXCEPT !.doc_map = Append(@, <<chunk.doc_id, o>>)]

\* one iteration of the loop of _deduplicate_chunks, for the chunk object o
DedupIteration(st, o) ==
  LET chunk == st.objs[o]
      t == Lookup(st.doc_map, chunk.doc_id)
  IN IF t # 0
     THEN LET aggregated ==
                [st.objs[t] EXCEPT
                   !.evidence_sentences = @ \o chunk.evidence_sentences,
                   !.evidence_count = @ + chunk.evidence_count]
          IN [st EXCEPT !.objs[t] = KeepHighest(aggregated, chunk)]
     ELSE [st EXCEPT !.doc_map = Append(@, <<chunk.doc_id, o>>)]

Reverse(s) == [i \in 1..Len(s) |-> s[Len(s) + 1 - i]]

\* variant: sort without reverse=True, lowest score first
DedupSortedAscending(st) ==
  LET vals == [i \in 1..Len(st.doc_map) |-> st.doc_map[i][2]]
  IN SortIdxDesc(vals, [o \in 1..Len(st.objs) |-> 0 - st.objs[o].total_score])

\* variant: ascending sort then reversal, which puts equal scores in
\* reverse order
DedupSortedTiesReversed(st) == Reverse(DedupSortedAscending(st))

\* list(doc_map.values()) sorted by total_score, highest first
DedupSorted(st) ==
  LET vals == [i \in 1..Len(st.doc_map) |-> st.doc_map[i][2]]
  IN SortIdxDesc(vals, [o \in 1..Len(st.objs) |-> st.objs[o].total_score])

RECURSIVE DedupLoop(_, _, _)
DedupLoop(st, chunks, i) ==
  IF i > Len(chunks) THEN st
  ELSE DedupLoop(DedupIteration(st, chunks[i]), chunks, i + 1)

\* variant: no consolidation, every chunk stays an entry of its own
_deduplicate_chunks_keep_all(objs, chunks) == [objs |-> objs, out |-> chunks]

\* _deduplicate_chunks on the list chunks of references into objs:
\* the heap afterwards and the returned list of references
_deduplicate_chunks(objs, chunks) ==
  LET st == DedupLoop([objs |-> objs, doc_map |-> <<>>], chunks, 1)
  IN [objs |-> st.objs, out |-> DedupSorted(st)]

\* the records a list of references denotes
Deref(objs, refs) == [i \in 1..Len(refs) |-> objs[refs[i]]]

DistinctDocs(entries) == Cardinality({ entries[i].doc_id : i \in 1..Len(entries) })

\* ------------------------------------------------------ sufficiency gate
Insufficient(count) == [sufficient |-> FALSE, count |-> count]
Sufficient == [sufficient |-> TRUE, count |-> 0]

\* DeduplicatedRetrievalService.retrieve, the two checks on the deduplicated list
DedupGate(entries) ==
  IF Len(entries) < min_chunks THEN Insufficient(Len(entries))
  ELSE IF DistinctDocs(entries) < min_docs THEN Insufficient(Len(entries))
  ELSE Sufficient

\* variant: the distinct-document check left out
SentenceGateNoDiversity(entries) ==
  IF Len(entries) < sl_min_chunks THEN Insufficient(Len(entries))
  ELSE IF SumSeq([i \in 1..Len(entries) |-> Len(entries[i].evidence_sentences)])
            < min_evidence_sentences
       THEN Insufficient(Len(entries))
  ELSE Sufficient

\* SentenceLevelRetrievalService.retrieve, the three checks on the filtered list
SentenceGate(entries) ==
  IF Len(entries) < sl_min_chunks THEN Insufficient(Len(entries))
  ELSE IF DistinctDocs(entries) < sl_min_docs THEN Insufficient(Len(entries))
  ELSE IF SumSeq([i \in 1..Len(entries) |-> Len(entries[i].evidence_sentences)])
            < min_evidence_sentences
       THEN Insufficient(Len(entries))
  ELSE Sufficient

\* ============================================================ state
TaskNames == {"summary", "answer"}
NoTasks == [t \in TaskNames |-> [state |-> "none"]]

VARIABLES
  variant,       \* which retrieval service runs: "dedup" or "sentence"
  papers,        \* initial_papers, the backend response
  backend,       \* how the search-backend call ended
  rpc,           \* position inside retrieve
  objs,          \* heap of enhanced chunk objects, in enhanced_chunks order
  chunks,        \* the list _deduplicate_chunks iterates over (references)
  idx,           \* loop position in chunks
  doc_map,       \* doc_map of _deduplicate_chunks
  deduplicated,  \* the list _deduplicate_chunks returned (references)
  gate,          \* outcome of the sufficiency checks
  again,         \* outcome of _deduplicate_chunks applied to its own output
  query,         \* the query posted to /api/unified-search
  pc,            \* position of the route handler / process_query
  _contexts,     \* ResponseContextManager._contexts: request_id -> context
  context,       \* request_id of the context process_query holds (0: none)
  tasks,         \* the summary and answer tasks of process_query
  llm_calls,     \* who issued a chat.completions.create call
  result,        \* what process_query returned
  http,          \* the HTTP response of the route
  paper_text,    \* title and abstract of the paper in the filter loop
  phrases,       \* how many words and phrases it was put together from
  entities,      \* the ExtractedEntities the filter was called with
  kept,          \* evidence_sentences of that paper (their texts)
  has_chunk,     \* whether the paper got an enhanced chunk
  tpc,           \* position of the filter loop on that paper
  issued,        \* how many uuids uuid4 has returned
  now,           \* time.time(), in units of 300 s
  th,            \* the request threads calling the context manager
  sweep,         \* cleanup_old_contexts: its to_remove between the loops,
                 \* the exception its last call raised, or None
  created_log,   \* request_ids of the contexts stored, in order
  looked,        \* outcome of the last synthesis attempt by request_id
  typed,         \* the query handed to extract_entities
  typed_pieces,  \* how many pieces it was put together from
  parsed,        \* the ExtractedEntities returned
  qpc,           \* position of the parser
  g_query,       \* the query of the request served by the grounded service
  g_chunks,      \* the chunks retrieval selected for it
  g_contexts,    \* the registry its context is stored in
  g_tasks,       \* its summary and answer tasks
  g_pc           \* retrieval or synthesis

rvars == << variant, objs, chunks, idx, doc_map, deduplicated, gate, again >>
lvars == << query, pc, _contexts, issued, context, tasks, llm_calls, result, http >>
pvars == << papers, backend, rpc, rvars, lvars >>
tvars == << paper_text, phrases, entities, kept, has_chunk, tpc >>
gvars == << now, th, sweep, created_log, looked >>
\* what the request pipeline never touches
qvars == << typed, typed_pieces, parsed, qpc >>
dvars == << g_query, g_chunks, g_contexts, g_tasks, g_pc >>
xvars == << tvars, gvars, qvars, dvars >>
vars == << pvars, xvars >>

\* the filter loop is not running
IdleText ==
  /\ paper_text = << >>
  /\ phrases = 0
  /\ entities = None
  /\ kept = << >>
  /\ has_chunk = FALSE
  /\ tpc = "idle"

Threads == {1, 2}

\* no thread is inside the context manager
IdleRegistry ==
  /\ now = 0
  /\ th = [t \in Threads |-> [pc |-> "idle"]]
  /\ sweep = None
  /\ created_log = << >>
  /\ looked = None

\* the parser is not running
IdleParser ==
  /\ typed = << >>
  /\ typed_pieces = 0
  /\ parsed = None
  /\ qpc = "idle"

IdleGrounded ==
  /\ g_query = << >>
  /\ g_chunks = << >>
  /\ g_contexts = << >>
  /\ g_tasks = << >>
  /\ g_pc = "idle"

IdleX == IdleText /\ IdleRegistry /\ IdleParser /\ IdleGrounded

\* --------------------------------------- retrieve, one step at a time
InitRetrieval ==
  /\ IdleX
  /\ variant \in {"dedup", "sentence"}
  /\ papers = <<>>
  /\ backend = "pending"
  /\ rpc = "searching"
  /\ objs = <<>>
  /\ chunks = <<>>
  /\ idx = 1
  /\ doc_map = <<>>
  /\ deduplicated = <<>>
  /\ gate = None
  /\ again = None
  /\ query = "effect of x on y"
  /\ pc = "retrieving"
  /\ _contexts = <<>>
  /\ issued = 0
  /\ context = 0
  /\ tasks = NoTasks
  /\ llm_calls = {}
  /\ result = None
  /\ http = None

\* _search_with_lambda, "for item in data['hits']": one more hit parsed
ReceiveHit ==
  /\ rpc = "searching"
  /\ \E paper \in NextHits(papers) : papers' = Append(papers, paper)
  /\ UNCHANGED << xvars, backend, rpc, rvars, lvars >>

\* _search_with_lambda returns the papers parsed
SearchReturns ==
  /\ rpc = "searching"
  /\ backend' = "ok"
  /\ rpc' = "searched"
  /\ UNCHANGED << xvars, papers, rvars, lvars >>

\* the request, raise_for_status or the parsing raises (timeout, HTTP error,
\* malformed body): the exception is printed and [] is returned
SearchFails ==
  /\ rpc = "searching"
  /\ backend' = "failed"
  /\ papers' = <<>>
  /\ rpc' = "searched"
  /\ UNCHANGED << xvars, rvars, lvars >>

\* _apply_sentence_level_filter; a null score makes the arithmetic raise,
\* which retrieve turns into RuntimeError("Retrieval failed")
ApplyFilter ==
  /\ rpc = "searched"
  /\ IF RaisesInFilter(papers)
     THEN /\ rpc' = "raised"
          /\ UNCHANGED << xvars, objs, chunks >>
     ELSE /\ objs' = IF variant = "dedup"
                     THEN _apply_sentence_level_filter(papers)
                     ELSE sl_apply_sentence_level_filter(papers)
          /\ chunks' = [i \in 1..Len(objs') |-> i]
          /\ rpc' = IF variant = "dedup" THEN "dedup" ELSE "filtered"
  /\ UNCHANGED << xvars, variant, papers, backend, idx, doc_map, deduplicated, gate, again, lvars >>

\* one iteration of "for chunk in chunks" in _deduplicate_chunks
DedupStep ==
  /\ rpc = "dedup"
  /\ idx <= Len(chunks)
  /\ LET st == DedupIteration([objs |-> objs, doc_map |-> doc_map], chunks[idx])
     IN /\ objs' = st.objs
        /\ doc_map' = st.doc_map
  /\ idx' = idx + 1
  /\ UNCHANGED << xvars, variant, papers, backend, rpc, chunks, deduplicated, gate, again, lvars >>

\* the loop is over: list(doc_map.values()), sort, return
DedupReturn ==
  /\ rpc = "dedup"
  /\ idx > Len(chunks)
  /\ deduplicated' = DedupSorted([objs |-> objs, doc_map |-> doc_map])
  /\ rpc' = "deduplicated"
  /\ UNCHANGED << xvars, variant, papers, backend, objs, chunks, idx, doc_map, gate, again, lvars >>

\* the sufficiency checks of DeduplicatedRetrievalService.retrieve
CheckDedupGate ==
  /\ rpc = "deduplicated"
  /\ gate' = DedupGate(Deref(objs, deduplicated))
  /\ rpc' = "gated"
  /\ UNCHANGED << xvars, variant, papers, backend, objs, chunks, idx, doc_map, deduplicated, again, lvars >>

\* the sufficiency checks of SentenceLevelRetrievalService.retrieve
CheckSentenceGate ==
  /\ rpc = "filtered"
  /\ gate' = SentenceGate(objs)
  /\ rpc' = "gated"
  /\ UNCHANGED << xvars, variant, papers, backend, objs, chunks, idx, doc_map, deduplicated, again, lvars >>

\* _deduplicate_chunks applied to the list it returned
Reapply ==
  /\ rpc = "gated"
  /\ variant = "dedup"
  /\ again = None
  /\ LET r == _deduplicate_chunks(objs, deduplicated)
     IN again' = [entries |-> Deref(r.objs, r.out)]
  /\ UNCHANGED << xvars, variant, papers, backend, rpc, objs, chunks, idx, doc_map,
                  deduplicated, gate, lvars >>

NextRetrieval ==
  \/ ReceiveHit
  \/ SearchReturns
  \/ SearchFails
  \/ ApplyFilter
  \/ DedupStep
  \/ DedupReturn
  \/ CheckDedupGate
  \/ CheckSentenceGate
  \/ Reapply

SpecRetrieval == InitRetrieval /\ [][NextRetrieval]_vars

\* ====================================================== request lifecycle
\* the queries posted: none, a compositional one, a single-entity one
Queries == {"", "effect of x on y", "how does x work"}

\* extract_entities(query).is_compositional
is_compositional(q) == q = "effect of x on y"

\* ------------------------------------------------------- context registry
\* the registry is a function from request_ids to contexts; a request_id is
\* an opaque string in the source, here a positive number
\* uuid.uuid4() when n uuids were drawn before: a value never returned before
uuid4(n) == n + 1

\* a digest of the query text
QueryDigest(q) == IF q = "effect of x on y" THEN 1 ELSE 2

\* variant: the request_id is derived from the query text
request_id_from_query(n, q) == QueryDigest(q)

\* request_id = str(uuid.uuid4())
new_request_id(n, q) == uuid4(n)

\* the ResponseContext create_context builds; insufficient_evidence,
\* evidence_count and enhanced_chunks are attributes retrieve may set later
\* (an absent attribute reads as FALSE / 0 / None through hasattr)
NewContext(n, created_at, q, selected_chunks) ==
  [request_id |-> new_request_id(n, q),
   query |-> q,
   selected_chunks |-> selected_chunks,
   created_at |-> created_at,
   insufficient_evidence |-> FALSE,
   evidence_count |-> 0,
   enhanced_chunks |-> None]

\* self._contexts[request_id] = context
StoreContext(contexts, ctx) == (ctx.request_id :> ctx) @@ contexts

\* create_context: a fresh uuid4 keys the new ResponseContext
create_context(contexts, n, created_at, q, selected_chunks) ==
  StoreContext(contexts, NewContext(n, created_at, q, selected_chunks))

\* get_context: None for an unknown request_id
get_context(contexts, request_id) ==
  IF request_id \in DOMAIN contexts THEN contexts[request_id] ELSE None

\* variant: validate_context without the empty selected_chunks check
validate_context_allowing_empty(contexts, request_id) ==
  LET ctx == get_context(contexts, request_id)
  IN IF ctx = None
     THEN [raised |-> TRUE, error |-> "Invalid request_id"]
     ELSE [raised |-> FALSE, context |-> ctx]

\* validate_context: ValueError for an unknown id or empty selected_chunks
validate_context(contexts, request_id) ==
  LET ctx == get_context(contexts, request_id)
  IN IF ctx = None
     THEN [raised |-> TRUE, error |-> "Invalid request_id"]
     ELSE IF ctx.selected_chunks = <<>>
     THEN [raised |-> TRUE, error |-> "No selected chunks available for generation"]
     ELSE [raised |-> FALSE, context |-> ctx]

\* ------------------------------------------------------------- retrieve
\* _convert_papers_to_chunks
_convert_papers_to_chunks(ps) == [i \in 1..Len(ps) |-> Chunk(i, ps[i])]

\* variant: the sentence filter, the consolidation and the gate are applied to
\* every query, single-entity ones too
retrieveFilteringEveryQuery(contexts, n, created_at, q, ps) ==
  IF is_compositional(q) \/ q # ""
  THEN IF RaisesInFilter(ps)
       THEN [raised |-> TRUE, error |-> "Retrieval failed"]
       ELSE
         LET enhanced == _apply_sentence_level_filter(ps)
             d == _deduplicate_chunks(enhanced, [i \in 1..Len(enhanced) |-> i])
             deduplicated_chunks == Deref(d.objs, d.out)
             verdict == DedupGate(deduplicated_chunks)
         IN IF ~verdict.sufficient
            THEN \* _create_insufficient_evidence_context
                 LET created == create_context(contexts, n, created_at, q, <<>>)
                     rid == new_request_id(n, q)
                 IN [raised |-> FALSE,
                     contexts |-> [created EXCEPT
                                      ![rid].insufficient_evidence = TRUE,
                                      ![rid].evidence_count = verdict.count],
                     request_id |-> rid]
            ELSE LET selected == Prefix(deduplicated_chunks, max_chunks)
                     regular == [i \in 1..Len(selected) |-> selected[i].chunk]
                     created == create_context(contexts, n, created_at, q, regular)
                     rid == new_request_id(n, q)
                 IN [raised |-> FALSE,
                     contexts |-> [created EXCEPT ![rid].enhanced_chunks = selected],
                     request_id |-> rid]
  ELSE LET created == create_context(contexts, n, created_at, q,
                         _convert_papers_to_chunks(Prefix(ps, max_chunks)))
       IN [raised |-> FALSE, contexts |-> created,
           request_id |-> new_request_id(n, q)]

\* DeduplicatedRetrievalService.retrieve after _search_with_lambda returned
\* ps: either an exception (wrapped into RuntimeError) or the registry with
\* the new context in it
retrieve(contexts, n, created_at, q, ps) ==
  IF is_compositional(q)
  THEN IF RaisesInFilter(ps)
       THEN [raised |-> TRUE, error |-> "Retrieval failed"]
       ELSE
         LET enhanced == _apply_sentence_level_filter(ps)
             d == _deduplicate_chunks(enhanced, [i \in 1..Len(enhanced) |-> i])
             deduplicated_chunks == Deref(d.objs, d.out)
             verdict == DedupGate(deduplicated_chunks)
         IN IF ~verdict.sufficient
            THEN \* _create_insufficient_evidence_context
                 LET created == create_context(contexts, n, created_at, q, <<>>)
                     rid == new_request_id(n, q)
                 IN [raised |-> FALSE,
                     contexts |-> [created EXCEPT
                                      ![rid].insufficient_evidence = TRUE,
                                      ![rid].evidence_count = verdict.count],
                     request_id |-> rid]
            ELSE LET selected == Prefix(deduplicated_chunks, max_chunks)
                     regular == [i \in 1..Len(selected) |-> selected[i].chunk]
                     created == create_context(contexts, n, created_at, q, regular)
                     rid == new_request_id(n, q)
                 IN [raised |-> FALSE,
                     contexts |-> [created EXCEPT ![rid].enhanced_chunks = selected],
                     request_id |-> rid]
  ELSE LET created == create_context(contexts, n, created_at, q,
                         _convert_papers_to_chunks(Prefix(ps, max_chunks)))
       IN [raised |-> FALSE, contexts |-> created,
           request_id |-> new_request_id(n, q)]

\* ----------------------------------------------------- generation service
max_evidence_sentences == 10
MaxPerChunk == 3

\* texts: tokens of a model reply, and the fixed messages of the service
Word == [t |-> "word", a |-> 0, b |-> 0]
Cite(n) == [t |-> "cite", a |-> n, b |-> 0]
Internal(c, i) == [t |-> "internal", a |-> c, b |-> i]

\* what the language model may reply
LLMReplies == { << Word >>, << Word, Cite(1), Internal(1, 1), Internal(9, 9) >> }

GeneratedText(tokens) == [kind |-> "generated", tokens |-> tokens, n |-> 0]
\* "Insufficient evidence: Only {count} relevant studies found ..."
OnlyNFoundText(response_type, count) ==
  [kind |-> "only_n_found", tokens |-> <<response_type>>, n |-> count]
\* "Insufficient evidence: No relevant studies found ... for query '{query}'"
NoStudiesText(field, q) ==
  [kind |-> "no_studies_found", tokens |-> <<field, q>>, n |-> 0]
EmptyText == [kind |-> "empty", tokens |-> <<>>, n |-> 0]

\* dict.get(key, default)
Get(d, key, default) == IF key \in DOMAIN d THEN d[key] ELSE default

\* _format_evidence_sentences_optimized: at most 3 sentences per chunk, 10 in
\* all, chunks by score; position n in the list is citation id [n], and
\* internal holds the internal id "<chunk id>.<i>" mapped to it
RECURSIVE FormatEvidenceFrom(_, _, _)
FormatEvidenceFrom(sorted_chunks, c, acc) ==
  IF c > Len(sorted_chunks) \/ Len(acc) >= max_evidence_sentences THEN acc
  ELSE LET chunk_evidence == Prefix(sorted_chunks[c].evidence_sentences, MaxPerChunk)
           taken == Prefix(chunk_evidence, max_evidence_sentences - Len(acc))
       IN FormatEvidenceFrom(sorted_chunks, c + 1,
             acc \o [i \in 1..Len(taken) |->
                       [internal |-> << sorted_chunks[c].chunk.id, i >>,
                        sentence |-> taken[i]]])

_format_evidence_sentences_optimized(enhanced_chunks) ==
  FormatEvidenceFrom(SortChunks(enhanced_chunks), 1, <<>>)

\* _clean_citations: an internal id of the citation map becomes its display
\* id, any other "[d.d]" is removed
RECURSIVE _clean_citations(_, _)
_clean_citations(tokens, evidence) ==
  IF tokens = <<>> THEN <<>>
  ELSE LET tok == Head(tokens)
           rest == _clean_citations(Tail(tokens), evidence)
           hits == { n \in 1..Len(evidence) :
                       evidence[n].internal = << tok.a, tok.b >> }
       IN IF tok.t # "internal" THEN <<tok>> \o rest
          ELSE IF hits # {} THEN << Cite(CHOOSE n \in hits : TRUE) >> \o rest
          ELSE rest

\* _create_insufficient_evidence_response
_create_insufficient_evidence_response(response_type, ctx) ==
  (response_type :> OnlyNFoundText(response_type, ctx.evidence_count))
    @@ [chunks_used |-> 0, request_id |-> ctx.request_id]

\* get_insufficient_evidence_template
get_insufficient_evidence_template(q) ==
  [summary |-> NoStudiesText("summary", q),
   answer |-> NoStudiesText("answer", q),
   chunks_used |-> 0,
   request_id |-> 0]

\* generate_quick_summary / generate_long_answer up to the completion call:
\* the task raises, returns without calling the model, or awaits the model
GenerateUntilAwait(contexts, request_id, response_type) ==
  LET v == validate_context(contexts, request_id)
  IN IF v.raised
     THEN [state |-> "raised", exc |-> "InsufficientEvidenceError",
           message |-> v.error]
     ELSE IF v.context.insufficient_evidence
     THEN [state |-> "done",
           result |-> _create_insufficient_evidence_response(response_type, v.context)]
     ELSE IF is_compositional(v.context.query) /\ v.context.enhanced_chunks # None
     THEN LET evidence ==
                _format_evidence_sentences_optimized(v.context.enhanced_chunks)
          IN IF evidence = <<>>
             THEN [state |-> "done",
                   result |-> _create_insufficient_evidence_response(response_type, v.context)]
             ELSE [state |-> "awaiting", evidence |-> evidence]
     ELSE [state |-> "awaiting", evidence |-> <<>>]

\* the rest of generate_* once the model replied
GenerateAfterReply(ctx, response_type, evidence, reply) ==
  [state |-> "done",
   result |-> (response_type :> GeneratedText(_clean_citations(reply, evidence)))
                @@ [chunks_used |-> Len(ctx.selected_chunks),
                    request_id |-> ctx.request_id]]

\* ------------------------------------------------------------ controller
\* _format_citations_for_ui
_format_citations_for_ui(selected) ==
  [i \in 1..Len(selected) |->
     [pmid |-> selected[i].pmid_or_doi,
      has_url |-> selected[i].pmid_or_doi # EmptyPmid]]

\* variant: the except branch answers with the insufficient-evidence texts
FailureResponseWithTemplate(q, error) ==
  [success |-> FALSE, error |-> error, query |-> q,
   summary |-> NoStudiesText("summary", q), answer |-> NoStudiesText("answer", q),
   citations |-> <<>>]

\* the except branch of process_query
FailureResponse(q, error) ==
  [success |-> FALSE, error |-> error, query |-> q,
   summary |-> EmptyText, answer |-> EmptyText, citations |-> <<>>]

\* variant: gather without return_exceptions, a task's exception fails the request
ResponseAllOrNothing(ctx, q, summary_task, answer_task) ==
  IF summary_task.state = "raised" \/ answer_task.state = "raised"
  THEN FailureResponse(q, "Summary generation failed")
  ELSE [success |-> TRUE,
        request_id |-> ctx.request_id,
        query |-> q,
        summary |-> Get(summary_task.result, "summary", EmptyText),
        answer |-> Get(answer_task.result, "answer", EmptyText),
        citations |-> _format_citations_for_ui(ctx.selected_chunks),
        total_chunks |-> Len(ctx.selected_chunks),
        chunks_used_summary |-> Get(summary_task.result, "chunks_used", 0),
        chunks_used_answer |-> Get(answer_task.result, "chunks_used", 0)]

\* process_query after gather: an exception result is replaced by the
\* template, then the response is formatted
Response(ctx, q, summary_task, answer_task) ==
  LET summary_result == IF summary_task.state = "raised"
                        THEN get_insufficient_evidence_template(q)
                        ELSE summary_task.result
      answer_result == IF answer_task.state = "raised"
                       THEN get_insufficient_evidence_template(q)
                       ELSE answer_task.result
  IN [success |-> TRUE,
      request_id |-> ctx.request_id,
      query |-> q,
      summary |-> Get(summary_result, "summary", EmptyText),
      answer |-> Get(answer_result, "answer", EmptyText),
      citations |-> _format_citations_for_ui(ctx.selected_chunks),
      total_chunks |-> Len(ctx.selected_chunks),
      chunks_used_summary |-> Get(summary_result, "chunks_used", 0),
      chunks_used_answer |-> Get(answer_result, "chunks_used", 0)]

\* ------------------------------------- one request, one step at a time
Init ==
  /\ IdleX
  /\ variant = "dedup"
  /\ papers = <<>>
  /\ backend = "pending"
  /\ rpc = "idle"
  /\ objs = <<>>
  /\ chunks = <<>>
  /\ idx = 1
  /\ doc_map = <<>>
  /\ deduplicated = <<>>
  /\ gate = None
  /\ again = None
  /\ query \in Queries
  /\ pc = "received"
  /\ _contexts = <<>>
  /\ issued = 0
  /\ context = 0
  /\ tasks = NoTasks
  /\ llm_calls = {}
  /\ result = None
  /\ http = None

\* unified_search: "if not query" answers 400 at once
RouteRejects ==
  /\ pc = "received"
  /\ query = ""
  /\ http' = [status |-> 400, body |-> [error |-> "Query parameter is required"]]
  /\ pc' = "responded"
  /\ UNCHANGED << xvars, papers, backend, rpc, rvars, query, _contexts, issued, context, tasks,
                  llm_calls, result >>

\* variant: the route hands any query on, the empty one too
RouteCallsUnchecked ==
  /\ pc = "received"
  /\ pc' = "retrieving"
  /\ rpc' = "searching"
  /\ UNCHANGED << xvars, papers, backend, rvars, query, _contexts, issued, context, tasks,
                  llm_calls, result, http >>

\* unified_search runs process_query, which calls retrieve, which calls the
\* search backend
RouteCalls ==
  /\ pc = "received"
  /\ query # ""
  /\ pc' = "retrieving"
  /\ rpc' = "searching"
  /\ UNCHANGED << xvars, papers, backend, rvars, query, _contexts, issued, context, tasks,
                  llm_calls, result, http >>

\* retrieve raises: process_query returns its failure response
RetrieveRaises ==
  /\ pc = "retrieving"
  /\ rpc = "searched"
  /\ retrieve(_contexts, issued, now, query, papers).raised
  /\ result' = FailureResponse(query, "Retrieval failed")
  /\ pc' = "returned"
  /\ rpc' = "raised"
  /\ papers' = <<>>
  /\ UNCHANGED << xvars, backend, rvars, query, _contexts, issued, context, tasks, llm_calls, http >>

\* retrieve returns a context; process_query creates both tasks and awaits gather
RetrieveReturns ==
  /\ pc = "retrieving"
  /\ rpc = "searched"
  /\ LET r == retrieve(_contexts, issued, now, query, papers)
     IN /\ ~r.raised
        /\ _contexts' = r.contexts
        /\ issued' = issued + 1
        /\ context' = r.request_id
  /\ tasks' = [t \in TaskNames |-> [state |-> "created"]]
  /\ pc' = "gathering"
  /\ rpc' = "returned"
  /\ papers' = <<>>
  /\ UNCHANGED << xvars, backend, rvars, query, llm_calls, result, http >>

\* the event loop runs a created task up to its first await (tasks start in
\* creation order): it raises, returns, or issues the completion call
TaskRuns(t) ==
  /\ pc = "gathering"
  /\ tasks[t].state = "created"
  /\ t = "answer" => tasks["summary"].state # "created"
  /\ LET step == GenerateUntilAwait(_contexts, context, t)
     IN /\ tasks' = [tasks EXCEPT ![t] = step]
        /\ llm_calls' = IF step.state = "awaiting" THEN llm_calls \cup {t}
                        ELSE llm_calls
  /\ UNCHANGED << xvars, papers, backend, rpc, rvars, query, pc, _contexts, issued, context,
                  result, http >>

\* the completion call of a task returns
LLMReturns(t) ==
  /\ pc = "gathering"
  /\ tasks[t].state = "awaiting"
  /\ \E reply \in LLMReplies :
        tasks' = [tasks EXCEPT ![t] =
                    GenerateAfterReply(_contexts[context], t, tasks[t].evidence, reply)]
  /\ UNCHANGED << xvars, papers, backend, rpc, rvars, query, pc, _contexts, issued, context,
                  llm_calls, result, http >>

\* the completion call of a task raises or times out: RuntimeError
LLMFails(t) ==
  /\ pc = "gathering"
  /\ tasks[t].state = "awaiting"
  /\ tasks' = [tasks EXCEPT ![t] = [state |-> "raised", exc |-> "RuntimeError"]]
  /\ UNCHANGED << xvars, papers, backend, rpc, rvars, query, pc, _contexts, issued, context,
                  llm_calls, result, http >>

\* variant: process_query awaits the summary task only; an answer task that
\* has not completed by then counts as cancelled
GatherReturnsAfterSummary ==
  /\ pc = "gathering"
  /\ tasks["summary"].state \in {"done", "raised"}
  /\ result' = Response(_contexts[context], query, tasks["summary"],
                        IF tasks["answer"].state \in {"done", "raised"}
                        THEN tasks["answer"]
                        ELSE [state |-> "raised", exc |-> "CancelledError"])
  /\ pc' = "returned"
  /\ UNCHANGED << xvars, papers, backend, rpc, rvars, query, _contexts, issued, context, tasks,
                  llm_calls, http >>

\* gather has both outcomes: process_query formats and returns the response
GatherReturns ==
  /\ pc = "gathering"
  /\ \A t \in TaskNames : tasks[t].state \in {"done", "raised"}
  /\ result' = Response(_contexts[context], query, tasks["summary"], tasks["answer"])
  /\ pc' = "returned"
  /\ UNCHANGED << xvars, papers, backend, rpc, rvars, query, _contexts, issued, context, tasks,
                  llm_calls, http >>

\* unified_search, after process_query returned: _make_detailed_answer issues
\* a completion call on the sources block
RouteAsksDetailedAnswer ==
  /\ pc = "returned"
  /\ llm_calls' = llm_calls \cup {"route"}
  /\ pc' = "detailing"
  /\ UNCHANGED << xvars, papers, backend, rpc, rvars, query, _contexts, issued, context, tasks,
                  result, http >>

\* the route's completion call returns: the reply is added to the result
RouteDetailedReturns ==
  /\ pc = "detailing"
  /\ \E reply \in LLMReplies :
        http' = [status |-> 200, body |-> result,
                 detailed_answer |-> GeneratedText(reply)]
  /\ pc' = "responded"
  /\ UNCHANGED << xvars, papers, backend, rpc, rvars, query, _contexts, issued, context, tasks,
                  llm_calls, result >>

\* the route's completion call raises: detailed_answer is ""
RouteDetailedFails ==
  /\ pc = "detailing"
  /\ http' = [status |-> 200, body |-> result, detailed_answer |-> EmptyText]
  /\ pc' = "responded"
  /\ UNCHANGED << xvars, papers, backend, rpc, rvars, query, _contexts, issued, context, tasks,
                  llm_calls, result >>

Next ==
  \/ RouteRejects
  \/ RouteCalls
  \/ ReceiveHit
  \/ SearchReturns
  \/ SearchFails
  \/ RetrieveRaises
  \/ RetrieveReturns
  \/ \E t \in TaskNames : TaskRuns(t)
  \/ \E t \in TaskNames : LLMReturns(t)
  \/ \E t \in TaskNames : LLMFails(t)
  \/ GatherReturns
  \/ RouteAsksDetailedAnswer
  \/ RouteDetailedReturns
  \/ RouteDetailedFails

Spec == Init /\ [][Next]_vars

\* ============================================================== text
\* A str is a sequence of one-character strings.
Lowercase == << "a", "b", "c", "d", "e", "f", "g", "h", "i", "j", "k", "l", "m", "n", "o", "p", "q", "r", "s", "t", "u", "v", "w", "x", "y", "z", "î" >>
Uppercase == << "A", "B", "C", "D", "E", "F", "G", "H", "I", "J", "K", "L", "M", "N", "O", "P", "Q", "R", "S", "T", "U", "V", "W", "X", "Y", "Z", "Î" >>
Digits == { "0", "1", "2", "3", "4", "5", "6", "7", "8", "9" }
\* the characters \w matches (str patterns are Unicode-aware)
WordChars ==
  Range(Lowercase) \cup Range(Uppercase) \cup Digits \cup {"_", "²", "º"}
\* the characters \s matches and str.strip() removes
Whitespace == {" ", "\t", "\n"}

\* str.lower(), one character
lower_char(c) ==
  IF c \in Range(Uppercase)
  THEN Lowercase[CHOOSE i \in DOMAIN Uppercase : Uppercase[i] = c]
  ELSE c

\* str.lower()
str_lower(s) == [i \in 1..Len(s) |-> lower_char(s[i])]

\* str.strip()
str_strip(s) ==
  LET inked == { i \in 1..Len(s) : s[i] \notin Whitespace }
  IN IF inked = {} THEN << >>
     ELSE SubSeq(s, CHOOSE i \in inked : \A j \in inked : i <= j,
                    CHOOSE i \in inked : \A j \in inked : i >= j)

\* re.split(r'[.!?]+', text): the pieces between maximal runs of . ! ?
RECURSIVE re_split_from(_, _)
re_split_from(s, i) ==
  LET stops == { j \in i..Len(s) : s[j] \in {".", "!", "?"} }
      \* the first . ! ? from i on, and the end of its run
      first == CHOOSE j \in stops : \A k \in stops : j <= k
      last == CHOOSE j \in first..Len(s) :
                 /\ \A k \in first..j : k \in stops
                 /\ j + 1 \notin stops
  IN IF stops = {} THEN << SubSeq(s, i, Len(s)) >>
     ELSE << SubSeq(s, i, first - 1) >> \o re_split_from(s, last + 1)

\* _split_into_sentences: split, strip, drop the empty pieces
_split_into_sentences(s) ==
  LET pieces == re_split_from(s, 1)
      stripped == [i \in 1..Len(pieces) |-> str_strip(pieces[i])]
  IN SelectSeq(stripped, LAMBDA p : p # << >>)

\* \b between positions k and k + 1 of s: exactly one side is a word character
word_boundary(s, k) ==
  LET is_word(j) == j \in 1..Len(s) /\ s[j] \in WordChars
  IN is_word(k) # is_word(k + 1)

\* variant: a plain substring test, no \b
re_search_substring(s, literal) ==
  \E p \in 1..(Len(s) - Len(literal) + 1) :
     \A j \in 1..Len(literal) : lower_char(s[p + j - 1]) = lower_char(literal[j])

\* re.search(r'\b' + re.escape(literal) + r'\b', s, re.IGNORECASE)
re_search_word(s, literal) ==
  \E p \in 1..(Len(s) - Len(literal) + 1) :
     /\ word_boundary(s, p - 1)
     /\ \A j \in 1..Len(literal) : lower_char(s[p + j - 1]) = lower_char(literal[j])
     /\ word_boundary(s, p + Len(literal) - 1)

\* _contains_term: the term is lowered, then searched between \b
_contains_term(s, term) == re_search_word(s, str_lower(term))

\* any(f(x) for x in seq)
AnyTerm(s, terms) == \E i \in DOMAIN terms : _contains_term(s, terms[i])

\* _sentence_contains_both_entities
_sentence_contains_both_entities(sentence, ents) ==
  LET sentence_lower == str_lower(sentence)
      has_x == AnyTerm(sentence_lower, ents.x_terms)
      has_y == AnyTerm(sentence_lower, ents.y_terms)
  IN IF ~(has_x /\ has_y) THEN FALSE
     ELSE IF ents.disambiguators # << >>
     THEN AnyTerm(sentence_lower, ents.disambiguators)
     ELSE TRUE

\* inflammation_patterns, every alternative of every pattern written out
\* (the source file spells the Greek letters of the last patterns as Î±, Î², Îº)
inflammation_patterns ==
  << << "i", "n", "f", "l", "a", "m", "m", "a", "t", "i", "o", "n" >>,
     << "n", "e", "u", "r", "o", "i", "n", "f", "l", "a", "m", "m", "a", "t", "i", "o", "n" >>,
     << "g", "l", "i", "a", "l", " ", "a", "c", "t", "i", "v", "a", "t", "i", "o", "n" >>,
     << "m", "i", "c", "r", "o", "g", "l", "i", "a", " ", "a", "c", "t", "i", "v", "a", "t", "i", "o", "n" >>,
     << "m", "i", "c", "r", "o", "g", "l", "i", "a", "l", " ", "a", "c", "t", "i", "v", "a", "t", "i", "o", "n" >>,
     << "a", "s", "t", "r", "o", "c", "y", "t", "e", " ", "a", "c", "t", "i", "v", "a", "t", "i", "o", "n" >>,
     << "c", "y", "t", "o", "k", "i", "n", "e" >>,
     << "c", "y", "t", "o", "k", "i", "n", "e", "s" >>,
     << "i", "n", "t", "e", "r", "l", "e", "u", "k", "i", "n" >>,
     << "T", "N", "F", "-", "Î", "±" >>,
     << "I", "L", "-", "1", "Î", "²" >>,
     << "C", "R", "P" >>,
     << "N", "F", "-", "Î", "º", "B" >> >>

\* negative_inflammation_patterns
negative_inflammation_patterns ==
  << << "i", "n", "f", "l", "a", "m", "m", "a", "t", "o", "r", "y", " ", "b", "o", "w", "e", "l", " ", "d", "i", "s", "e", "a", "s", "e" >>,
     << "i", "n", "f", "l", "a", "m", "m", "a", "t", "o", "r", "y", " ", "m", "y", "o", "p", "a", "t", "h", "y" >>,
     << "i", "n", "f", "l", "a", "m", "m", "a", "t", "o", "r", "y", " ", "a", "r", "t", "h", "r", "i", "t", "i", "s" >>,
     << "i", "n", "f", "l", "a", "m", "m", "a", "t", "o", "r", "y", " ", "n", "e", "u", "r", "o", "p", "a", "t", "h", "y" >>,
     << "i", "n", "f", "l", "a", "m", "m", "a", "t", "o", "r", "y", " ", "c", "a", "r", "d", "i", "o", "m", "y", "o", "p", "a", "t", "h", "y" >> >>

inflammation_terms ==
  << << "i", "n", "f", "l", "a", "m", "m", "a", "t", "i", "o", "n" >>,
     << "i", "n", "f", "l", "a", "m", "m", "a", "t", "o", "r", "y" >>,
     << "s", "w", "e", "l", "l", "i", "n", "g" >>,
     << "i", "r", "r", "i", "t", "a", "t", "i", "o", "n" >> >>

\* _is_inflammation_query: one of the four terms is an element of x_terms
_is_inflammation_query(ents) ==
  \E i \in DOMAIN inflammation_terms :
     inflammation_terms[i] \in Range(ents.x_terms)

\* _passes_inflammation_gate
_passes_inflammation_gate(sentence, ents) ==
  LET sentence_lower == str_lower(sentence)
      has(s, patterns) == \E i \in DOMAIN patterns : re_search_word(s, patterns[i])
  IN IF ~has(sentence_lower, inflammation_patterns) THEN FALSE
     ELSE IF has(sentence_lower, negative_inflammation_patterns)
     THEN has(str_lower(ents.original_query), negative_inflammation_patterns)
     ELSE TRUE

\* the evidence sentences _apply_sentence_level_filter finds in one paper
EvidenceSentencesOf(title_and_text, ents) ==
  SelectSeq(_split_into_sentences(title_and_text),
            LAMBDA sentence :
               /\ _sentence_contains_both_entities(sentence, ents)
               /\ ~(_is_inflammation_query(ents)
                    /\ ~_passes_inflammation_gate(sentence, ents)))

\* ------------------------------------------- one paper through the filter
\* the characters a title or abstract is made of
TextChars == {"a", "i", "s", "A", " ", "."}

\* the entities of the query: two terms, or two terms and a disambiguator
TextEntities ==
  { [x_terms |-> << << "a", "i" >> >>, y_terms |-> << << "s" >> >>, disambiguators |-> << >>,
     original_query |-> << "a", "i", " ", "a", "n", "d", " ", "s" >>],
    [x_terms |-> << << "A" >> >>, y_terms |-> << << "s" >> >>, disambiguators |-> << << "i" >> >>,
     original_query |-> << "A", " ", "a", "n", "d", " ", "s", " ", "i", "n", " ", "i" >>] }

\* no request is in the pipeline
IdlePipeline ==
  /\ variant = "dedup"
  /\ papers = << >>
  /\ backend = "pending"
  /\ rpc = "idle"
  /\ objs = << >>
  /\ chunks = << >>
  /\ idx = 1
  /\ doc_map = << >>
  /\ deduplicated = << >>
  /\ gate = None
  /\ again = None
  /\ query = ""
  /\ pc = "idle"
  /\ _contexts = << >>
  /\ issued = 0
  /\ context = 0
  /\ tasks = NoTasks
  /\ llm_calls = {}
  /\ result = None
  /\ http = None

InitText ==
  /\ IdleGrounded
  /\ IdlePipeline
  /\ IdleRegistry
  /\ IdleParser
  /\ paper_text = << >>
  /\ phrases = 0
  /\ entities \in TextEntities
  /\ kept = << >>
  /\ has_chunk = FALSE
  /\ tpc = "reading"

\* the backend delivers the title and abstract of a hit
ReceiveText ==
  /\ tpc = "reading"
  /\ Len(paper_text) < MaxTextLen
  /\ \E c \in TextChars : paper_text' = Append(paper_text, c)
  /\ UNCHANGED << pvars, gvars, qvars, dvars, phrases, entities, kept, has_chunk, tpc >>

\* one iteration of the loop of _apply_sentence_level_filter: the paper is
\* split, its evidence sentences are collected, and a chunk is made of it
\* only if there are any
FilterPaper ==
  /\ tpc = "reading"
  /\ kept' = EvidenceSentencesOf(paper_text, entities)
  /\ has_chunk' = (kept' # << >>)
  /\ tpc' = "filtered"
  /\ UNCHANGED << pvars, gvars, qvars, dvars, paper_text, phrases, entities >>

NextText ==
  \/ ReceiveText
  \/ FilterPaper

SpecText == InitText /\ [][NextText]_vars

\* ------------------------------------- the inflammation evidence gate
\* the words and phrases a title or abstract is put together from
GatePhrases ==
  { << "i", "n", "f", "l", "a", "m", "m", "a", "t", "i", "o", "n" >>,
    << "c", "y", "t", "o", "k", "i", "n", "e", "s" >>,
    << "a", "d" >>,
    << "i", "n", "f", "l", "a", "m", "m", "a", "t", "o", "r", "y", " ", "m", "y", "o", "p", "a", "t", "h", "y" >>,
    << "i", "n", "f", "l", "a", "m", "m", "a", "t", "o", "r", "y", " ", "b", "o", "w", "e", "l", " ", "d", "i", "s", "e", "a", "s", "e" >>,
    << "." >> }

\* the entities of three queries about "ad": "effect of inflammation on ad",
\* the same "in inflammatory bowel disease", and "effect of cytokines on ad"
GateEntities ==
  { [x_terms |-> << << "i", "n", "f", "l", "a", "m", "m", "a", "t", "i", "o", "n" >>, << "i", "n", "f", "l", "a", "m", "m", "a", "t", "o", "r", "y" >>, << "s", "w", "e", "l", "l", "i", "n", "g" >>, << "i", "r", "r", "i", "t", "a", "t", "i", "o", "n" >> >>,
     y_terms |-> << << "a", "d" >> >>, disambiguators |-> << >>,
     original_query |-> << "e", "f", "f", "e", "c", "t", " ", "o", "f", " ", "i", "n", "f", "l", "a", "m", "m", "a", "t", "i", "o", "n", " ", "o", "n", " ", "a", "d" >>],
    [x_terms |-> << << "i", "n", "f", "l", "a", "m", "m", "a", "t", "i", "o", "n" >>, << "i", "n", "f", "l", "a", "m", "m", "a", "t", "o", "r", "y" >>, << "s", "w", "e", "l", "l", "i", "n", "g" >>, << "i", "r", "r", "i", "t", "a", "t", "i", "o", "n" >> >>,
     y_terms |-> << << "a", "d" >> >>, disambiguators |-> << >>,
     original_query |-> << "e", "f", "f", "e", "c", "t", " ", "o", "f", " ", "i", "n", "f", "l", "a", "m", "m", "a", "t", "i", "o", "n", " ", "o", "n", " ", "a", "d", " ", "i", "n", " ", "i", "n", "f", "l", "a", "m", "m", "a", "t", "o", "r", "y", " ", "b", "o", "w", "e", "l", " ", "d", "i", "s", "e", "a", "s", "e" >>],
    [x_terms |-> << << "c", "y", "t", "o", "k", "i", "n", "e", "s" >> >>,
     y_terms |-> << << "a", "d" >> >>, disambiguators |-> << >>,
     original_query |-> << "e", "f", "f", "e", "c", "t", " ", "o", "f", " ", "c", "y", "t", "o", "k", "i", "n", "e", "s", " ", "o", "n", " ", "a", "d" >>] }

InitGate ==
  /\ IdleGrounded
  /\ IdlePipeline
  /\ IdleRegistry
  /\ IdleParser
  /\ paper_text = << >>
  /\ phrases = 0
  /\ entities \in GateEntities
  /\ kept = << >>
  /\ has_chunk = FALSE
  /\ tpc = "reading"

\* the backend delivers the next word or phrase of the title and abstract;
\* a full stop goes right behind the last word
ReceivePhrase ==
  /\ tpc = "reading"
  /\ phrases < MaxPhrases
  /\ \E phrase \in GatePhrases :
        paper_text' = IF paper_text = << >> \/ phrase = << "." >>
                        THEN paper_text \o phrase
                        ELSE paper_text \o << " " >> \o phrase
  /\ phrases' = phrases + 1
  /\ UNCHANGED << pvars, gvars, qvars, dvars, entities, kept, has_chunk, tpc >>

NextGate ==
  \/ ReceivePhrase
  \/ FilterPaper

SpecGate == InitGate /\ [][NextGate]_vars

\* ======================================================= context registry
\* _max_age = 600 s and _cleanup_interval = 300 s, in units of 300 s
_max_age == 2
_cleanup_interval == 1

\* variant: an entry is collected as soon as its age reaches _max_age
ExpiredIdsFromMaxAge(contexts, current_time) ==
  { r \in DOMAIN contexts : current_time - contexts[r].created_at >= _max_age }

\* the request_ids cleanup_old_contexts collects in to_remove
ExpiredIds(contexts, current_time) ==
  { r \in DOMAIN contexts : current_time - contexts[r].created_at > _max_age }

\* del self._contexts[request_id] for every collected id
RemoveIds(contexts, to_remove) ==
  [r \in DOMAIN contexts \ to_remove |-> contexts[r]]

\* cleanup_old_contexts
cleanup_old_contexts(contexts, current_time) ==
  RemoveIds(contexts, ExpiredIds(contexts, current_time))

\* what callers hand to create_context
RegistryQueries == {"effect of x on y", "how does x work"}
RegistrySelections == { << >>, << [id |-> 1, pmid_or_doi |-> 1] >> }

InitRegistry ==
  /\ IdleGrounded
  /\ IdlePipeline
  /\ IdleText
  /\ IdleRegistry
  /\ IdleParser

\* create_context up to the store: the uuid is drawn and the context built
CreateContextBegins(t) ==
  /\ th[t].pc = "idle"
  /\ issued < MaxRequests
  /\ \E q \in RegistryQueries, selected_chunks \in RegistrySelections :
        th' = [th EXCEPT ![t] =
                 [pc |-> "storing",
                  context |-> NewContext(issued, now, q, selected_chunks)]]
  /\ issued' = issued + 1
  /\ UNCHANGED << papers, backend, rpc, rvars, query, pc, _contexts, context,
                  tasks, llm_calls, result, http, tvars, qvars, dvars, now, sweep,
                  created_log, looked >>

\* create_context stores the context under its request_id and returns it
CreateContextStores(t) ==
  /\ th[t].pc = "storing"
  /\ _contexts' = StoreContext(_contexts, th[t].context)
  /\ created_log' = Append(created_log, th[t].context.request_id)
  /\ th' = [th EXCEPT ![t] = [pc |-> "idle"]]
  /\ UNCHANGED << papers, backend, rpc, rvars, query, pc, issued, context,
                  tasks, llm_calls, result, http, tvars, qvars, dvars, now, sweep, looked >>

\* a caller of the generation service hands it a request_id: one that was
\* issued, or one that never was
Synthesizes ==
  /\ \E request_id \in 1..(issued + 1), response_type \in TaskNames :
        looked' = [request_id |-> request_id,
                   known |-> request_id \in DOMAIN _contexts,
                   outcome |-> GenerateUntilAwait(_contexts, request_id,
                                                  response_type)]
  /\ looked' # looked
  /\ UNCHANGED << pvars, tvars, qvars, dvars, now, th, sweep, created_log >>

\* cleanup_old_contexts, first loop: to_remove is collected
SweepScans ==
  /\ "to_remove" \notin DOMAIN sweep
  /\ sweep' = [to_remove |-> ExpiredIds(_contexts, now)]
  /\ UNCHANGED << pvars, tvars, qvars, dvars, now, th, created_log, looked >>

\* a thread stores its context while the first loop iterates over the dict:
\* the loop raises RuntimeError (dictionary changed size during iteration)
\* and cleanup_old_contexts removes nothing
SweepRaces(t) ==
  /\ "to_remove" \notin DOMAIN sweep
  /\ DOMAIN _contexts # {}
  /\ th[t].pc = "storing"
  /\ th[t].context.request_id \notin DOMAIN _contexts
  /\ _contexts' = StoreContext(_contexts, th[t].context)
  /\ created_log' = Append(created_log, th[t].context.request_id)
  /\ th' = [th EXCEPT ![t] = [pc |-> "idle"]]
  /\ sweep' = [raised |-> "RuntimeError"]
  /\ UNCHANGED << papers, backend, rpc, rvars, query, pc, issued, context,
                  tasks, llm_calls, result, http, tvars, qvars, dvars, now, looked >>

\* cleanup_old_contexts, second loop: the collected entries are deleted
SweepDeletes ==
  /\ "to_remove" \in DOMAIN sweep
  /\ _contexts' = RemoveIds(_contexts, sweep.to_remove)
  /\ sweep' = None
  /\ UNCHANGED << papers, backend, rpc, rvars, query, pc, issued, context,
                  tasks, llm_calls, result, http, tvars, qvars, dvars, now, th,
                  created_log, looked >>

\* 300 s pass
Tick ==
  /\ now < MaxTime
  /\ now' = now + 1
  /\ UNCHANGED << pvars, tvars, qvars, dvars, th, sweep, created_log, looked >>

\* the context manager under any caller of its methods
NextRegistry ==
  \/ \E t \in Threads : CreateContextBegins(t)
  \/ \E t \in Threads : CreateContextStores(t)
  \/ Synthesizes
  \/ SweepScans
  \/ \E t \in Threads : SweepRaces(t)
  \/ SweepDeletes
  \/ Tick

SpecRegistry == InitRegistry /\ [][NextRegistry]_vars

\* the context manager as the application drives it: requests create and
\* read contexts; nothing in the source calls cleanup_old_contexts
NextServer ==
  \/ \E t \in Threads : CreateContextBegins(t)
  \/ \E t \in Threads : CreateContextStores(t)
  \/ Synthesizes
  \/ Tick

SpecServer == InitRegistry /\ [][NextServer]_vars

\* ======================================================== query parser
\* FixedQueryParser (src/src/core/fixed_query_parser.py).  Its patterns are
\* built from whole tokens: a group ([^,\s]+(?:\s+[^,\s]+)*?) is a run of
\* tokens (maximal runs of characters other than comma and whitespace)
\* joined by whitespace, taken lazily; a keyword between \s+ is a token of
\* its own; a keyword with nothing in front of it may be the end of a
\* token, one with nothing behind it the beginning of a token.

\* s[p..] starts with sub / s contains sub ("sub in s")
str_at(sub, s, p) ==
  /\ p + Len(sub) - 1 <= Len(s)
  /\ \A j \in 1..Len(sub) : s[p + j - 1] = sub[j]
str_in(sub, s) == \E p \in 1..(Len(s) + 1) : str_at(sub, s, p)
str_endswith(s, sub) == Len(sub) <= Len(s) /\ str_at(sub, s, Len(s) - Len(sub) + 1)
str_startswith(s, sub) == str_at(sub, s, 1)

\* the maximal runs of characters outside seps, as << first, last >> pairs
RECURSIVE Spans(_, _, _)
Spans(s, seps, i) ==
  IF i > Len(s) THEN << >>
  ELSE IF s[i] \in seps THEN Spans(s, seps, i + 1)
  ELSE LET last == CHOOSE e \in i..Len(s) :
                      /\ \A j \in i..e : s[j] \notin seps
                      /\ e = Len(s) \/ s[e + 1] \in seps
       IN << << i, last >> >> \o Spans(s, seps, last + 1)

\* str.split(): the whitespace-separated words
str_split(s) ==
  LET sp == Spans(s, Whitespace, 1)
  IN [k \in 1..Len(sp) |-> SubSeq(s, sp[k][1], sp[k][2])]

\* re.findall(r'\b\w+\b', s): the maximal runs of word characters
re_findall_words(s) ==
  LET positions == { i \in 1..Len(s) : s[i] \notin WordChars }
      sp == Spans(s, { s[i] : i \in positions }, 1)
  IN [k \in 1..Len(sp) |-> SubSeq(s, sp[k][1], sp[k][2])]

\* a pattern: the keywords before the first group (the first of them may end
\* a token), the keywords between the groups, and the keywords a token
\* after the second group must begin with ({} stands for (?:\s|$))
Pattern(pre, mid, post) == [pre |-> pre, mid |-> mid, post |-> post]

compositional_patterns ==
  << Pattern(<< { << "e", "f", "f", "e", "c", "t" >>, << "i", "m", "p", "a", "c", "t" >>, << "i", "n", "f", "l", "u", "e", "n", "c", "e" >>, << "r", "o", "l", "e" >> },
                { << "o", "f" >> } >>, << { << "o", "n" >> } >>, {}),
     Pattern(<< { << "d", "o", "e", "s" >> } >>, << { << "a", "f", "f", "e", "c", "t" >> } >>, {}),
     Pattern(<< >>, << { << "a", "n", "d" >> } >>,
             { << "a", "s", "s", "o", "c", "i", "a", "t", "i", "o", "n" >>, << "r", "e", "l", "a", "t", "i", "o", "n", "s", "h", "i", "p" >>, << "c", "o", "r", "r", "e", "l", "a", "t", "i", "o", "n" >>, << "l", "i", "n", "k" >> }),
     Pattern(<< >>, << { << "v", "s" >>, << "v", "s", "." >> } >>, {}),
     Pattern(<< >>, << { << "c", "o", "m", "p", "a", "r", "e", "d" >> }, { << "t", "o" >> } >>, {}),
     Pattern(<< >>, << { << "t", "r", "e", "a", "t", "m", "e", "n", "t" >> }, { << "f", "o", "r" >> } >>, {}) >>

\* the tokens k0.. of s (sp its token spans) match pattern p with the first
\* group ending at token j and the second at token m
MatchAt(p, s, sp, k0, j, m) ==
  LET tok(k) == SubSeq(s, sp[k][1], sp[k][2])
      \* only whitespace between token k and the next token
      linked(k) == /\ k < Len(sp)
                   /\ \A q \in (sp[k][2] + 1)..(sp[k + 1][1] - 1) : s[q] \in Whitespace
  IN /\ k0 >= 1 /\ k0 + Len(p.pre) <= j /\ j + Len(p.mid) + 1 <= m /\ m <= Len(sp)
     /\ \A q \in 1..Len(p.pre) :
           /\ IF q = 1
              THEN \E kw \in p.pre[q] : str_endswith(tok(k0), kw)
              ELSE tok(k0 + q - 1) \in p.pre[q]
           /\ linked(k0 + q - 1)
     /\ \A q \in (k0 + Len(p.pre))..(j - 1) : linked(q)
     /\ linked(j)
     /\ \A q \in 1..Len(p.mid) : tok(j + q) \in p.mid[q] /\ linked(j + q)
     /\ \A q \in (j + Len(p.mid) + 1)..(m - 1) : linked(q)
     /\ IF p.post = {}
        THEN sp[m][2] = Len(s) \/ s[sp[m][2] + 1] \in Whitespace
        ELSE linked(m) /\ \E kw \in p.post : str_startswith(tok(m + 1), kw)

\* every way pattern p matches s, as << k0, j, m >>
MatchesOf(p, s, sp) ==
  { t \in (1..Len(sp)) \X (1..Len(sp)) \X (1..Len(sp)) :
       MatchAt(p, s, sp, t[1], t[2], t[3]) }

\* the match the regex engine finds: the leftmost start, then the lazy groups
\* as short as the rest of the pattern allows
FirstMatch(M) ==
  CHOOSE t \in M : \A u \in M :
     \/ t[1] < u[1]
     \/ t[1] = u[1] /\ t[2] < u[2]
     \/ t[1] = u[1] /\ t[2] = u[2] /\ t[3] <= u[3]

\* groups 1 and 2 of match t
GroupsOf(p, s, sp, t) ==
  [g1 |-> SubSeq(s, sp[t[1] + Len(p.pre)][1], sp[t[2]][2]),
   g2 |-> SubSeq(s, sp[t[2] + Len(p.mid) + 1][1], sp[t[3]][2])]

SearchGroups(p, s, sp, M) ==
  IF M = {} THEN None ELSE GroupsOf(p, s, sp, FirstMatch(M))

SearchTokens(p, s, sp) == SearchGroups(p, s, sp, MatchesOf(p, s, sp))

\* re.search(pattern, s): None, or groups 1 and 2 of the first match
re_search_groups(p, s) == SearchTokens(p, s, Spans(s, Whitespace \cup {","}, 1))

synonyms ==
  << << << "m", "i", "c", "r", "o", "p", "l", "a", "s", "t", "i", "c", "s" >>, << "m", "i", "c", "r", "o", "p", "l", "a", "s", "t", "i", "c" >>, << "p", "l", "a", "s", "t", "i", "c", " ", "p", "a", "r", "t", "i", "c", "l", "e", "s" >>, << "n", "a", "n", "o", "p", "l", "a", "s", "t", "i", "c", "s" >>, << "p", "l", "a", "s", "t", "i", "c", " ", "d", "e", "b", "r", "i", "s" >> >>,
     << << "t", "e", "s", "t", "o", "s", "t", "e", "r", "o", "n", "e" >>, << "t", "e", "s", "t" >>, << "a", "n", "d", "r", "o", "g", "e", "n" >>, << "m", "a", "l", "e", " ", "h", "o", "r", "m", "o", "n", "e" >>, << "T" >> >>,
     << << "a", "l", "z", "h", "e", "i", "m", "e", "r" >>, << "a", "l", "z", "h", "e", "i", "m", "e", "r", "'", "s" >>, << "d", "e", "m", "e", "n", "t", "i", "a" >>, << "c", "o", "g", "n", "i", "t", "i", "v", "e", " ", "d", "e", "c", "l", "i", "n", "e" >>, << "n", "e", "u", "r", "o", "d", "e", "g", "e", "n", "e", "r", "a", "t", "i", "o", "n" >> >>,
     << << "c", "a", "n", "c", "e", "r" >>, << "t", "u", "m", "o", "r" >>, << "n", "e", "o", "p", "l", "a", "s", "m" >>, << "m", "a", "l", "i", "g", "n", "a", "n", "c", "y" >>, << "c", "a", "r", "c", "i", "n", "o", "m", "a" >> >>,
     << << "d", "i", "a", "b", "e", "t", "e", "s" >>, << "d", "i", "a", "b", "e", "t", "i", "c" >>, << "b", "l", "o", "o", "d", " ", "s", "u", "g", "a", "r" >>, << "g", "l", "u", "c", "o", "s", "e" >>, << "i", "n", "s", "u", "l", "i", "n" >> >>,
     << << "i", "n", "f", "l", "a", "m", "m", "a", "t", "i", "o", "n" >>, << "i", "n", "f", "l", "a", "m", "m", "a", "t", "o", "r", "y" >>, << "s", "w", "e", "l", "l", "i", "n", "g" >>, << "i", "r", "r", "i", "t", "a", "t", "i", "o", "n" >>, << "i", "n", "f", "l", "a", "m", "m", "a", "t", "o", "r", "y", " ", "r", "e", "s", "p", "o", "n", "s", "e" >> >>,
     << << "c", "a", "r", "d", "i", "o", "v", "a", "s", "c", "u", "l", "a", "r" >>, << "h", "e", "a", "r", "t" >>, << "c", "a", "r", "d", "i", "a", "c" >>, << "c", "i", "r", "c", "u", "l", "a", "t", "o", "r", "y" >>, << "v", "a", "s", "c", "u", "l", "a", "r" >> >>,
     << << "i", "m", "m", "u", "n", "e" >>, << "i", "m", "m", "u", "n", "i", "t", "y" >>, << "i", "m", "m", "u", "n", "o", "l", "o", "g", "i", "c", "a", "l" >>, << "d", "e", "f", "e", "n", "s", "e" >>, << "r", "e", "s", "i", "s", "t", "a", "n", "c", "e" >> >>,
     << << "o", "x", "i", "d", "a", "t", "i", "v", "e" >>, << "o", "x", "i", "d", "a", "t", "i", "o", "n" >>, << "f", "r", "e", "e", " ", "r", "a", "d", "i", "c", "a", "l", "s" >>, << "a", "n", "t", "i", "o", "x", "i", "d", "a", "n", "t" >> >>,
     << << "s", "t", "r", "e", "s", "s" >>, << "s", "t", "r", "e", "s", "s", "o", "r" >>, << "p", "r", "e", "s", "s", "u", "r", "e" >>, << "t", "e", "n", "s", "i", "o", "n" >> >>,
     << << "c", "r", "e", "a", "t", "i", "n", "e" >>, << "c", "r", "e", "a", "t", "i", "n", "i", "n", "e" >>, << "c", "r", "e", "a", "t", "i", "n", "e", " ", "s", "u", "p", "p", "l", "e", "m", "e", "n", "t", "a", "t", "i", "o", "n" >>, << "c", "r", "e", "a", "t", "i", "n", "e", " ", "m", "o", "n", "o", "h", "y", "d", "r", "a", "t", "e" >> >>,
     << << "k", "i", "d", "n", "e", "y" >>, << "r", "e", "n", "a", "l" >>, << "k", "i", "d", "n", "e", "y", " ", "f", "u", "n", "c", "t", "i", "o", "n" >>, << "e", "g", "f", "r" >>, << "c", "r", "e", "a", "t", "i", "n", "i", "n", "e" >>, << "g", "l", "o", "m", "e", "r", "u", "l", "a", "r", " ", "f", "i", "l", "t", "r", "a", "t", "i", "o", "n" >> >> >>

ad_disambiguators ==
  << << "a", "l", "z", "h", "e", "i", "m", "e", "r" >>,
     << "a", "l", "z", "h", "e", "i", "m", "e", "r", "'", "s" >>,
     << "a", "d" >>,
     << "a", "β" >>,
     << "b", "e", "t", "a", "-", "a", "m", "y", "l", "o", "i", "d" >>,
     << "a", "m", "y", "l", "o", "i", "d" >>,
     << "t", "a", "u" >>,
     << "t", "a", "u", "o", "p", "a", "t", "h", "y" >>,
     << "h", "i", "p", "p", "o", "c", "a", "m", "p" >>,
     << "h", "i", "p", "p", "o", "c", "a", "m", "p", "a", "l" >>,
     << "c", "o", "g", "n", "i", "t", "i", "v", "e" >>,
     << "d", "e", "m", "e", "n", "t", "i", "a" >>,
     << "n", "e", "u", "r", "o", "d", "e", "g", "e", "n", "e", "r", "a", "t", "i", "o", "n" >>,
     << "n", "e", "u", "r", "o", "f", "i", "b", "r", "i", "l", "l", "a", "r", "y" >>,
     << "p", "l", "a", "q", "u", "e", "s" >> >>

\* _are_distinct_entities: overlap > 0.3 * min(len(x_words), len(y_words))
_are_distinct_entities(x_raw, y_raw) ==
  LET x_words == Range(str_split(str_lower(x_raw)))
      y_words == Range(str_split(str_lower(y_raw)))
      overlap == Cardinality(x_words \cap y_words)
      smaller == IF Cardinality(x_words) <= Cardinality(y_words)
                 THEN Cardinality(x_words) ELSE Cardinality(y_words)
  IN ~(10 * overlap > 3 * smaller)

\* _contains_ad
_contains_ad(terms) ==
  LET ad_indicators == << << "a", "d" >>,
     << "a", "l", "z", "h", "e", "i", "m", "e", "r" >>,
     << "d", "e", "m", "e", "n", "t", "i", "a" >>,
     << "c", "o", "g", "n", "i", "t", "i", "v", "e" >> >>
  IN \E k \in DOMAIN terms : \E i \in DOMAIN ad_indicators :
        str_in(ad_indicators[i], str_lower(terms[k]))

\* the synonym groups one of whose members occurs in term_lower, appended in
\* the order of the dict
RECURSIVE MatchingSynonyms(_, _, _)
MatchingSynonyms(table, term_lower, g) ==
  IF g > Len(table) THEN << >>
  ELSE (IF \E i \in DOMAIN table[g] : str_in(table[g][i], term_lower)
        THEN table[g] ELSE << >>)
       \o MatchingSynonyms(table, term_lower, g + 1)

\* "Remove duplicates while preserving order", compared in lower case
RECURSIVE UniqueTerms(_, _)
UniqueTerms(rest, seen) ==
  IF rest = << >> THEN << >>
  ELSE IF str_lower(Head(rest)) \in seen THEN UniqueTerms(Tail(rest), seen)
  ELSE << Head(rest) >>
       \o UniqueTerms(Tail(rest), seen \cup { str_lower(Head(rest)) })

\* variant: only the synonyms are returned, the term itself is not included
_expand_terms_synonyms_only(term) ==
  UniqueTerms(MatchingSynonyms(synonyms, str_lower(term), 1), {})

\* _expand_terms
_expand_terms(term) ==
  UniqueTerms(<< term >> \o MatchingSynonyms(synonyms, str_lower(term), 1), {})

stop_words ==
  { << "a", "d", "u", "l", "t", "s" >>, << "b", "e", "s", "t" >>, << "d", "o", "e", "s" >>, << "f", "o", "r" >>, << "h", "e", "a", "l", "t", "h", "y" >>, << "h", "o", "w" >>, << "i", "n" >>, << "i", "s" >>, << "t", "h", "e" >>, << "t", "h", "e", "r", "a", "p", "y" >>, << "t", "r", "e", "a", "t", "m", "e", "n", "t" >>, << "w", "h", "a", "t" >>, << "w", "o", "r", "k" >> }

\* flattening a list of lists
RECURSIVE Flatten(_)
Flatten(lists) == IF lists = << >> THEN << >> ELSE Head(lists) \o Flatten(Tail(lists))

\* _extract_main_terms up to list(set(expanded)): the set of expanded terms
MainTermSet(q) ==
  LET words == re_findall_words(str_lower(q))
      main_terms == SelectSeq(words, LAMBDA w : w \notin stop_words /\ Len(w) > 2)
  IN Range(Flatten([k \in 1..Len(main_terms) |-> _expand_terms(main_terms[k])]))

\* the lists with the elements of S, each once
ListsOf(S) ==
  { f \in [1..Cardinality(S) -> S] : \A a, b \in DOMAIN f : a # b => f[a] # f[b] }

\* _extract_main_terms: list(set(expanded)) comes in no particular order
_extract_main_terms(q) == ListsOf(MainTermSet(q))

\* the loop over compositional_patterns from pattern n on: None, or the
\* groups of the first pattern that matches with distinct entities
RECURSIVE FirstDistinctMatch(_, _)
FirstDistinctMatch(query_lower, n) ==
  IF n > Len(compositional_patterns) THEN None
  ELSE LET match == re_search_groups(compositional_patterns[n], query_lower)
       IN IF match # None
             /\ _are_distinct_entities(str_strip(match.g1), str_strip(match.g2))
          THEN match
          ELSE FirstDistinctMatch(query_lower, n + 1)

\* extract_entities: the results it may return (one, up to the order of the
\* main terms).  The SECOND and FALLBACK branches build the same result, so
\* _is_single_entity_query has no part in it.
extract_entities(q) ==
  LET query_lower == str_strip(str_lower(q))
      match == FirstDistinctMatch(query_lower, 1)
  IN IF match # None
     THEN LET x_terms == _expand_terms(str_strip(match.g1))
              y_terms == _expand_terms(str_strip(match.g2))
          IN { [x_terms |-> x_terms,
                y_terms |-> y_terms,
                disambiguators |-> IF _contains_ad(y_terms)
                                   THEN ad_disambiguators ELSE << >>,
                is_compositional |-> TRUE,
                original_query |-> q] }
     ELSE { [x_terms |-> main_terms,
             y_terms |-> << >>,
             disambiguators |-> << >>,
             is_compositional |-> FALSE,
             original_query |-> q] : main_terms \in _extract_main_terms(q) }

\* ------------------------------------------------- queries, piece by piece
\* what a query is put together from
QueryPieces ==
  { << "e", "f", "f", "e", "c", "t", " ", "o", "f" >>,
    << "o", "n" >>,
    << "a", "n", "d" >>,
    << "l", "i", "n", "k" >>,
    << "v", "s" >>,
    << "x" >>,
    << "a", "d" >>,
    << "," >> }

InitParser ==
  /\ IdleGrounded
  /\ IdlePipeline
  /\ IdleText
  /\ IdleRegistry
  /\ typed = << >>
  /\ typed_pieces = 0
  /\ parsed = None
  /\ qpc = "typing"

\* the user types on: a comma goes right behind the last word, anything else
\* after a blank
TypePiece ==
  /\ qpc = "typing"
  /\ typed_pieces < MaxQueryPieces
  /\ \E piece \in QueryPieces :
        typed' = IF typed = << >> THEN piece
                 ELSE IF piece = << "," >> THEN typed \o piece
                 ELSE typed \o << " " >> \o piece
  /\ typed_pieces' = typed_pieces + 1
  /\ UNCHANGED << pvars, tvars, gvars, dvars, parsed, qpc >>

\* extract_entities(query)
Parse ==
  /\ qpc = "typing"
  /\ parsed' \in extract_entities(typed)
  /\ qpc' = "parsed"
  /\ UNCHANGED << pvars, tvars, gvars, dvars, typed, typed_pieces >>

NextParser ==
  \/ TypePiece
  \/ Parse

SpecParser == InitParser /\ [][NextParser]_vars

\* =================================================== grounded generation
\* ----------------------------------------- query_parser.QueryParser
\* QueryParser.synonyms
QueryParser_synonyms ==
  << << << "m", "i", "c", "r", "o", "p", "l", "a", "s", "t", "i", "c", "s" >>, << "m", "i", "c", "r", "o", "p", "l", "a", "s", "t", "i", "c" >>, << "p", "l", "a", "s", "t", "i", "c", " ", "p", "a", "r", "t", "i", "c", "l", "e", "s" >>, << "n", "a", "n", "o", "p", "l", "a", "s", "t", "i", "c", "s" >>, << "p", "l", "a", "s", "t", "i", "c", " ", "d", "e", "b", "r", "i", "s" >> >>,
     << << "t", "e", "s", "t", "o", "s", "t", "e", "r", "o", "n", "e" >>, << "t", "e", "s", "t" >>, << "a", "n", "d", "r", "o", "g", "e", "n" >>, << "m", "a", "l", "e", " ", "h", "o", "r", "m", "o", "n", "e" >>, << "T" >> >>,
     << << "a", "l", "z", "h", "e", "i", "m", "e", "r" >>, << "a", "l", "z", "h", "e", "i", "m", "e", "r", "'", "s" >>, << "d", "e", "m", "e", "n", "t", "i", "a" >>, << "c", "o", "g", "n", "i", "t", "i", "v", "e", " ", "d", "e", "c", "l", "i", "n", "e" >>, << "n", "e", "u", "r", "o", "d", "e", "g", "e", "n", "e", "r", "a", "t", "i", "o", "n" >> >>,
     << << "c", "a", "n", "c", "e", "r" >>, << "t", "u", "m", "o", "r" >>, << "n", "e", "o", "p", "l", "a", "s", "m" >>, << "m", "a", "l", "i", "g", "n", "a", "n", "c", "y" >>, << "c", "a", "r", "c", "i", "n", "o", "m", "a" >> >>,
     << << "d", "i", "a", "b", "e", "t", "e", "s" >>, << "d", "i", "a", "b", "e", "t", "i", "c" >>, << "b", "l", "o", "o", "d", " ", "s", "u", "g", "a", "r" >>, << "g", "l", "u", "c", "o", "s", "e" >>, << "i", "n", "s", "u", "l", "i", "n" >> >>,
     << << "i", "n", "f", "l", "a", "m", "m", "a", "t", "i", "o", "n" >>, << "i", "n", "f", "l", "a", "m", "m", "a", "t", "o", "r", "y" >>, << "s", "w", "e", "l", "l", "i", "n", "g" >>, << "i", "r", "r", "i", "t", "a", "t", "i", "o", "n" >> >>,
     << << "c", "a", "r", "d", "i", "o", "v", "a", "s", "c", "u", "l", "a", "r" >>, << "h", "e", "a", "r", "t" >>, << "c", "a", "r", "d", "i", "a", "c" >>, << "c", "i", "r", "c", "u", "l", "a", "t", "o", "r", "y" >>, << "v", "a", "s", "c", "u", "l", "a", "r" >> >>,
     << << "i", "m", "m", "u", "n", "e" >>, << "i", "m", "m", "u", "n", "i", "t", "y" >>, << "i", "m", "m", "u", "n", "o", "l", "o", "g", "i", "c", "a", "l" >>, << "d", "e", "f", "e", "n", "s", "e" >>, << "r", "e", "s", "i", "s", "t", "a", "n", "c", "e" >> >>,
     << << "o", "x", "i", "d", "a", "t", "i", "v", "e" >>, << "o", "x", "i", "d", "a", "t", "i", "o", "n" >>, << "f", "r", "e", "e", " ", "r", "a", "d", "i", "c", "a", "l", "s" >>, << "a", "n", "t", "i", "o", "x", "i", "d", "a", "n", "t" >> >>,
     << << "s", "t", "r", "e", "s", "s" >>, << "s", "t", "r", "e", "s", "s", "o", "r" >>, << "p", "r", "e", "s", "s", "u", "r", "e" >>, << "t", "e", "n", "s", "i", "o", "n" >> >> >>

\* stop_words of QueryParser._extract_main_terms
QueryParser_stop_words ==
  { << "b", "e", "s", "t" >>, << "d", "o", "e", "s" >>, << "f", "o", "r" >>, << "h", "o", "w" >>, << "i", "s" >>, << "t", "h", "e" >>, << "t", "h", "e", "r", "a", "p", "y" >>, << "t", "r", "e", "a", "t", "m", "e", "n", "t" >>, << "w", "h", "a", "t" >>, << "w", "o", "r", "k" >> }

\* QueryParser.patterns: the six patterns of the fixed parser, then "X in Y"
QueryParser_patterns ==
  compositional_patterns \o << Pattern(<< >>, << { << "i", "n" >> } >>, {}) >>

\* QueryParser._expand_terms
QueryParser_expand_terms(term) ==
  UniqueTerms(<< term >> \o MatchingSynonyms(QueryParser_synonyms, str_lower(term), 1), {})

\* QueryParser._extract_main_terms up to list(set(expanded))
QueryParser_main_term_set(q) ==
  LET words == re_findall_words(str_lower(q))
      main_terms == SelectSeq(words, LAMBDA w : w \notin QueryParser_stop_words /\ Len(w) > 2)
  IN Range(Flatten([k \in 1..Len(main_terms) |-> QueryParser_expand_terms(main_terms[k])]))

\* QueryParser._extract_main_terms: list(set(expanded)) in no particular order
QueryParser_extract_main_terms(q) == ListsOf(QueryParser_main_term_set(q))

\* the loop over QueryParser.patterns from pattern n on: None, or the groups
\* of the first pattern that matches
RECURSIVE QueryParser_first_match(_, _)
QueryParser_first_match(query_lower, n) ==
  IF n > Len(QueryParser_patterns) THEN None
  ELSE IF re_search_groups(QueryParser_patterns[n], query_lower) # None
  THEN re_search_groups(QueryParser_patterns[n], query_lower)
  ELSE QueryParser_first_match(query_lower, n + 1)

\* the ExtractedEntities of a query whose pattern search ended with match
QueryParser_entities(q, match) ==
  IF match # None
  THEN { [x_terms |-> QueryParser_expand_terms(str_strip(match.g1)),
          y_terms |-> QueryParser_expand_terms(str_strip(match.g2)),
          is_compositional |-> TRUE,
          original_query |-> q] }
  ELSE { [x_terms |-> main_terms,
          y_terms |-> << >>,
          is_compositional |-> FALSE,
          original_query |-> q] : main_terms \in QueryParser_extract_main_terms(q) }

\* QueryParser.extract_entities: the results it may return (one, up to the
\* order of the main terms)
QueryParser_extract_entities(q) ==
  QueryParser_entities(q, QueryParser_first_match(str_strip(str_lower(q)), 1))

\* ------------------------------------------ GroundedGenerationService
\* _validate_citations: the chunks whose title and text mention an x term
\* and a y term
_validate_citations(selected_chunks, ents) ==
  SelectSeq(selected_chunks,
            LAMBDA chunk :
              /\ AnyTerm(str_lower(chunk.title \o << " " >> \o chunk.text), ents.x_terms)
              /\ AnyTerm(str_lower(chunk.title \o << " " >> \o chunk.text), ents.y_terms))

\* "Minimum for summary" / "Minimum for detailed answer"
MinValidated(response_type) == IF response_type = "summary" THEN 3 ELSE 6

\* generate_quick_summary / generate_long_answer of the grounded service up
\* to the completion call, for entities ents and validation outcome v: the
\* task raises, returns without calling the model, or awaits the model; the
\* registry comes back with it, since the task assigns to the context
GroundedAfterValidate(contexts, request_id, response_type, ents, v) ==
  IF v.raised
  THEN [state |-> "raised", exc |-> "InsufficientEvidenceError",
        message |-> v.error, contexts |-> contexts]
  ELSE IF v.context.insufficient_evidence
  THEN [state |-> "done", chunks_used |-> 0, contexts |-> contexts]
  ELSE IF ents.is_compositional
  THEN IF Len(_validate_citations(v.context.selected_chunks, ents))
             < MinValidated(response_type)
       THEN [state |-> "done", chunks_used |-> 0, contexts |-> contexts]
       ELSE \* context.selected_chunks = validated_chunks
            [state |-> "awaiting",
             contexts |-> [contexts EXCEPT ![request_id].selected_chunks =
                             _validate_citations(v.context.selected_chunks, ents)]]
  ELSE [state |-> "awaiting", contexts |-> contexts]

GroundedUntilAwait(contexts, request_id, response_type, ents) ==
  GroundedAfterValidate(contexts, request_id, response_type, ents,
                        validate_context(contexts, request_id))

\* what retrieval may select: a chunk that mentions x and s, one that
\* mentions x only, one that mentions s and has x inside another word
GroundedTexts ==
  { [title |-> << "x" >>, text |-> << "s" >>],
    [title |-> << "x" >>, text |-> << "a" >>],
    [title |-> << "a", "x" >>, text |-> << "s" >>] }

\* the queries: "x vs s", "x in s" and "x s"
GroundedQueries ==
  { << "x", " ", "v", "s", " ", "s" >>,
    << "x", " ", "i", "n", " ", "s" >>,
    << "x", " ", "s" >> }

NewTasks == [t \in TaskNames |-> [state |-> "new"]]

InitGrounded ==
  /\ IdlePipeline
  /\ IdleText
  /\ IdleRegistry
  /\ IdleParser
  /\ g_query \in GroundedQueries
  /\ g_chunks = << >>
  /\ g_contexts = << >>
  /\ g_tasks = NewTasks
  /\ g_pc = "retrieving"

\* retrieval selects one more chunk
GroundedSelect ==
  /\ g_pc = "retrieving"
  /\ Len(g_chunks) < MaxChunks
  /\ \E t \in GroundedTexts :
        g_chunks' = Append(g_chunks, [id |-> Len(g_chunks) + 1,
                                      pmid_or_doi |-> Len(g_chunks) + 1,
                                      title |-> t.title, text |-> t.text])
  /\ UNCHANGED << pvars, tvars, gvars, qvars, g_query, g_contexts, g_tasks, g_pc >>

\* retrieve returns: create_context stores the context
GroundedRetrieveReturns ==
  /\ g_pc = "retrieving"
  /\ g_contexts' = create_context(g_contexts, 0, 0, g_query, g_chunks)
  /\ g_pc' = "synthesis"
  /\ UNCHANGED << pvars, tvars, gvars, qvars, g_query, g_chunks, g_tasks >>

\* a synthesis task runs up to its completion call
GroundedStarts(t) ==
  /\ g_pc = "synthesis"
  /\ g_tasks[t].state = "new"
  /\ \E ents \in QueryParser_extract_entities(g_contexts[new_request_id(0, g_query)].query) :
        /\ g_tasks' = [g_tasks EXCEPT ![t] =
              [f \in DOMAIN GroundedUntilAwait(g_contexts, new_request_id(0, g_query), t, ents)
                      \ {"contexts"} |->
                 GroundedUntilAwait(g_contexts, new_request_id(0, g_query), t, ents)[f]]]
        /\ g_contexts' = GroundedUntilAwait(g_contexts, new_request_id(0, g_query), t, ents).contexts
  /\ UNCHANGED << pvars, tvars, gvars, qvars, g_query, g_chunks, g_pc >>

\* the completion call returns, and the task reports how many chunks the
\* context holds now; or the call fails and the task raises RuntimeError
GroundedCompletes(t) ==
  /\ g_pc = "synthesis"
  /\ g_tasks[t].state = "awaiting"
  /\ \E ok \in BOOLEAN :
        g_tasks' = [g_tasks EXCEPT ![t] =
           IF ok
           THEN [state |-> "done",
                 chunks_used |-> Len(g_contexts[new_request_id(0, g_query)].selected_chunks)]
           ELSE [state |-> "raised", exc |-> "RuntimeError"]]
  /\ UNCHANGED << pvars, tvars, gvars, qvars, g_query, g_chunks, g_contexts, g_pc >>

NextGrounded ==
  \/ GroundedSelect
  \/ GroundedRetrieveReturns
  \/ \E t \in TaskNames : GroundedStarts(t)
  \/ \E t \in TaskNames : GroundedCompletes(t)

SpecGrounded == InitGrounded /\ [][NextGrounded]_vars

\* ============================================================ properties
\* the papers of the backend response that yield an enhanced chunk
WithEvidence == { i \in 1..Len(papers) : KeptIdx(papers[i].sents, 1) # <<>> }

\* the list the sufficiency checks ran on, and the chunk threshold used
GateEntries == IF variant = "dedup" THEN Deref(objs, deduplicated) ELSE objs
GateMinChunks == IF variant = "dedup" THEN min_chunks ELSE sl_min_chunks

DedupDone == variant = "dedup" /\ rpc \in {"deduplicated", "gated"}
DedupOutput == Deref(objs, deduplicated)

\* an entry that absorbed the evidence of another chunk
Merged(entry) ==
  \E k \in 1..Len(entry.evidence_sentences) :
     entry.evidence_sentences[k].chunk_id # entry.chunk.id

\* retrieval of the request ended in the insufficient-evidence outcome
InsufficientOutcome ==
  /\ context # 0
  /\ _contexts[context].insufficient_evidence

\* process_query has returned
Returned == pc \in {"returned", "detailing", "responded"} /\ result # None

\* the text tells the user that n documents were found
ReportsCount(text, n) ==
  \/ text.kind = "only_n_found" /\ text.n = n
  \/ text.kind = "no_studies_found" /\ n = 0

\* C1: while a request with the insufficient-evidence outcome is handled, no
\* completion call is issued: not by the summary task, not by the answer
\* task, not by the route handler.
C1_NoCompletionCallWhenInsufficient ==
  InsufficientOutcome => llm_calls = {}

\* C2: when the gate rejects, the response of process_query has success =
\* true, insufficient_evidence = true and evidence_count = the number of
\* consolidated entries found, and summary and answer report that count.
C2_InsufficientResponseCarriesCount ==
  (InsufficientOutcome /\ Returned) =>
    /\ result.success
    /\ "insufficient_evidence" \in DOMAIN result
    /\ result["insufficient_evidence"] = TRUE
    /\ "evidence_count" \in DOMAIN result
    /\ result["evidence_count"] = _contexts[context].evidence_count
    /\ ReportsCount(result.summary, _contexts[context].evidence_count)
    /\ ReportsCount(result.answer, _contexts[context].evidence_count)

\* C3: a failed or timed-out backend call ends the request as a retrieval
\* error: success = false with an error, no synthesis task, and no
\* insufficient-evidence context or template.
C3_BackendFailureIsRetrievalError ==
  backend = "failed" =>
    /\ \A t \in TaskNames : tasks[t].state = "none"
    /\ ~InsufficientOutcome
    /\ Returned => (~result.success /\ "error" \in DOMAIN result)

\* C4: when retrieval succeeded and exactly one synthesis task failed, the
\* response has success = true, the other task's text as that task produced
\* it, and the template text in the failed task's field.
C4_PartialFailureKeepsOtherResult ==
  (Returned /\ context # 0) =>
    \A failed, other \in TaskNames :
       (/\ failed # other
        /\ tasks[failed].state = "raised"
        /\ tasks[other].state = "done") =>
          /\ result.success
          /\ result[other] = tasks[other].result[other]
          /\ result[failed] = NoStudiesText(failed, query)
          /\ result.citations = _format_citations_for_ui(_contexts[context].selected_chunks)

C4_Witness ==
  /\ Returned
  /\ tasks["summary"].state = "raised"
  /\ tasks["answer"].state = "done"
  /\ result.answer.kind = "generated"
  /\ Len(result.answer.tokens) = 3
  /\ result.summary.kind = "no_studies_found"

C6_GateVolumeAndDiversity ==
  rpc = "gated" =>
    /\ (~gate.sufficient) <=>
          \/ Len(GateEntries) < GateMinChunks
          \/ DistinctDocs(GateEntries) < 3
    /\ (Len(GateEntries) = 6 /\ DistinctDocs(GateEntries) = 2) => ~gate.sufficient
    /\ (~gate.sufficient) => gate.count = Len(GateEntries)

C6_Witness ==
  /\ rpc = "gated"
  /\ Len(GateEntries) = 6
  /\ DistinctDocs(GateEntries) = 2
  /\ ~gate.sufficient

\* C7: the deduplicated list has exactly one entry per doc_id of the input:
\* no doc_id twice, no input doc_id missing, none invented.
C7_OneEntryPerDoc ==
  DedupDone =>
    /\ \A i, j \in 1..Len(DedupOutput) :
          i # j => DedupOutput[i].doc_id # DedupOutput[j].doc_id
    /\ { DedupOutput[i].doc_id : i \in 1..Len(DedupOutput) }
         = { papers[i].pmid : i \in WithEvidence }

C7_Witness ==
  /\ DedupDone
  /\ Len(deduplicated) >= 2
  /\ Len(chunks) > Len(deduplicated)

\* C8: the deduplicated list is in non-increasing total_score order, so every
\* prefix holds the highest-scoring documents.
C8_SortedByTotalScore ==
  DedupDone =>
    /\ \A i, j \in 1..Len(DedupOutput) :
          i < j => DedupOutput[i].total_score >= DedupOutput[j].total_score
    /\ \A n \in 0..Len(DedupOutput) :
          \A i \in 1..n : \A j \in (n + 1)..Len(DedupOutput) :
             DedupOutput[i].total_score >= DedupOutput[j].total_score

C8_Witness ==
  /\ DedupDone
  /\ \E i, j \in 1..Len(DedupOutput) :
        DedupOutput[i].total_score > DedupOutput[j].total_score
  /\ \E i \in 1..Len(DedupOutput) : Merged(DedupOutput[i])

\* C9: _deduplicate_chunks applied to its own output returns the same entries
\* in the same order with the same evidence sentences, counts and scores.
C9_DedupIdempotent ==
  again # None => again.entries = DedupOutput

C9_Witness ==
  /\ again # None
  /\ Len(again.entries) >= 2
  /\ \E i \in 1..Len(again.entries) : Merged(again.entries[i])
  /\ \E i, j \in 1..Len(again.entries) :
        i # j /\ again.entries[i].total_score = again.entries[j].total_score

\* C10: a loop iteration that merges a chunk into an entry already in doc_map
\* never lowers that entry's total_score.
C10_MergeNeverLowersScore ==
  [][ (rpc = "dedup" /\ idx <= Len(chunks) /\ idx' = idx + 1) =>
        LET t == Lookup(doc_map, objs[chunks[idx]].doc_id)
        IN t # 0 => objs'[t].total_score >= objs[t].total_score ]_vars

C10_Witness ==
  /\ rpc = "dedup"
  /\ \E i \in 1..Len(doc_map) :
        /\ Merged(objs[doc_map[i][2]])
        /\ \E o \in 1..Len(objs) :
              /\ objs[o].doc_id = doc_map[i][1]
              /\ objs[o].total_score < objs[doc_map[i][2]].total_score

\* ------------------------------------------------------------------- C11
\* the words of s: its maximal runs of word characters, lowered
WordsOf(s) ==
  { str_lower(SubSeq(s, p, e)) :
      <<p, e>> \in { pe \in (1..Len(s)) \X (1..Len(s)) :
                       /\ pe[1] <= pe[2]
                       /\ \A j \in pe[1]..pe[2] : s[j] \in WordChars
                       /\ pe[1] = 1 \/ s[pe[1] - 1] \notin WordChars
                       /\ pe[2] = Len(s) \/ s[pe[2] + 1] \notin WordChars } }

\* one of the terms is a word of s
HasWholeWord(s, terms) == \E i \in DOMAIN terms : str_lower(terms[i]) \in WordsOf(s)

CoMentions(s, ents) ==
  /\ HasWholeWord(s, ents.x_terms)
  /\ HasWholeWord(s, ents.y_terms)
  /\ ents.disambiguators # << >> => HasWholeWord(s, ents.disambiguators)

\* C11: every evidence sentence the filter keeps has an X-term and a Y-term
\* among its words, and a disambiguator too when the query has any; a term
\* that is only part of a longer word does not count; a paper none of whose
\* sentences qualifies gets no chunk.
C11_KeptSentencesCoMention ==
  tpc = "filtered" =>
    /\ \A i \in DOMAIN kept : CoMentions(kept[i], entities)
    /\ LET sentences == _split_into_sentences(paper_text)
       IN (\A i \in DOMAIN sentences : ~CoMentions(sentences[i], entities))
             => ~has_chunk

\* a paper kept for a sentence holding X, Y and the disambiguator
C11_Witness ==
  /\ tpc = "filtered"
  /\ has_chunk
  /\ entities.disambiguators # << >>

\* ------------------------------------------------------------------- C12
\* C12: every create_context call, also one running concurrently with
\* another for the same query text, gets a request_id no other call got and
\* an entry of its own; no step of the context manager (a creation, a
\* lookup, an eviction) alters the entry of a request that stays in the
\* registry, and an eviction removes only the entries the sweep collected.
C12_RequestIsolation ==
  [][ /\ \A r \in DOMAIN _contexts \cap DOMAIN _contexts' :
            _contexts'[r] = _contexts[r]
      /\ created_log' # created_log =>
            LET request_id == created_log'[Len(created_log')]
            IN /\ request_id \notin Range(created_log)
               /\ request_id \notin DOMAIN _contexts
               /\ DOMAIN _contexts' = DOMAIN _contexts \cup {request_id}
      /\ \A t1, t2 \in Threads :
            (t1 # t2 /\ th'[t1].pc = "storing" /\ th'[t2].pc = "storing") =>
               th'[t1].context.request_id # th'[t2].context.request_id
      /\ looked' # looked => _contexts' = _contexts
      /\ \A r \in DOMAIN _contexts \ DOMAIN _contexts' :
            "to_remove" \in DOMAIN sweep /\ r \in sweep.to_remove
    ]_vars

\* two contexts were created for the same query text by threads that were
\* inside create_context together; one was evicted and the other looked up
C12_Witness ==
  /\ Len(created_log) = 2
  /\ created_log[1] = 2
  /\ DOMAIN _contexts = {2}
  /\ _contexts[2].query = "effect of x on y"
  /\ looked # None
  /\ looked.request_id = 2
  /\ looked.known

\* ------------------------------------------------------------------- C13
\* C13: a synthesis attempt with a request_id that is not in the registry
\* (never issued, or evicted) ends in an error that is not the
\* insufficient-evidence outcome a known context with empty evidence gets.
C13_UnknownIdIsDistinctError ==
  (looked # None /\ ~looked.known) =>
     /\ looked.outcome.state = "raised"
     /\ looked.outcome.exc # "InsufficientEvidenceError"

\* ------------------------------------------------------------------- C14
\* C14: the registry holds no entry older than the max age plus one sweep
\* interval: an entry whose age exceeds _max_age is purged by the next
\* periodic sweep.
C14_NoEntryOutlivesSweepPeriod ==
  \A r \in DOMAIN _contexts :
     now - _contexts[r].created_at <= _max_age + _cleanup_interval

\* ------------------------------------------------------------------- C16
\* C16: a request with an empty query is answered 400 in one step; the
\* search backend is never called for it, no context is created and no
\* completion call is issued.
C16_EmptyQueryRejected ==
  query = "" =>
    /\ pc \in {"received", "responded"}
    /\ pc = "responded" => http.status = 400
    /\ rpc = "idle"
    /\ backend = "pending"
    /\ papers = <<>>
    /\ DOMAIN _contexts = {}
    /\ issued = 0
    /\ tasks = NoTasks
    /\ llm_calls = {}

C16_Witness ==
  /\ query = ""
  /\ pc = "responded"
  /\ http.status = 400

\* ------------------------------------------------------------------- C17
\* the smaller of two numbers
Smaller(a, b) == IF a <= b THEN a ELSE b

C18_FailureIsAResponse ==
  /\ Returned =>
       \/ result.success
       \/ /\ ~result.success
          /\ result.error = "Retrieval failed"
          /\ result.summary = EmptyText
          /\ result.answer = EmptyText
          /\ result.citations = <<>>
  /\ rpc = "raised" =>
       /\ Returned
       /\ ~result.success
       /\ tasks = NoTasks
       /\ context = 0

C18_Witness ==
  /\ rpc = "raised"
  /\ pc = "responded"
  /\ ~result.success
  /\ http.status = 200

\* ------------------------------------------------------------------- C20
\* the total_scores the filter gave the chunks of document d
GroupScores(d) ==
  LET input == _apply_sentence_level_filter(papers)
  IN { input[k].total_score : k \in { j \in 1..Len(input) : input[j].doc_id = d } }

\* C20: the total_score of a consolidated entry is the highest total_score
\* among the input chunks of its document.
C20_MergedScoreIsGroupMaximum ==
  DedupDone =>
    \A i \in 1..Len(DedupOutput) :
       LET scores == GroupScores(DedupOutput[i].doc_id)
       IN /\ DedupOutput[i].total_score \in scores
          /\ \A x \in scores : DedupOutput[i].total_score >= x

\* an entry consolidated from chunks of different scores
C20_Witness ==
  /\ DedupDone
  /\ \E i \in 1..Len(DedupOutput) :
        /\ Merged(DedupOutput[i])
        /\ Cardinality(GroupScores(DedupOutput[i].doc_id)) >= 2

\* C19: extract_entities is total (it has a result for every query); a
\* compositional result has non-empty x_terms and y_terms, a result that is
\* not compositional has empty y_terms and empty disambiguators.
C19_EntitiesWellFormed ==
  /\ qpc = "typing" => extract_entities(typed) # {}
  /\ qpc = "parsed" =>
        /\ parsed.is_compositional =>
              parsed.x_terms # << >> /\ parsed.y_terms # << >>
        /\ ~parsed.is_compositional =>
              parsed.y_terms = << >> /\ parsed.disambiguators = << >>

\* a compositional query about "ad" has been parsed: both term lists hold
\* the matched term, and the result carries the disambiguators
C19_Witness ==
  /\ qpc = "parsed"
  /\ parsed.is_compositional
  /\ parsed.x_terms = << << "x" >> >>
  /\ parsed.y_terms = << << "a", "d" >> >>
  /\ parsed.disambiguators = ad_disambiguators

\* C15: once retrieve has returned the context, synthesis leaves it alone:
\* its query and selected_chunks stay what retrieval stored, whatever the
\* synthesis tasks have done so far.
C15_SynthesisLeavesContextAlone ==
  g_pc = "synthesis" =>
     /\ g_contexts[new_request_id(0, g_query)].query = g_query
     /\ g_contexts[new_request_id(0, g_query)].selected_chunks = g_chunks

\* ------------------------------------------------------------ C21 .. C23
\* the chunks the sentence-level filter hands to _deduplicate_chunks
DedupInput == _apply_sentence_level_filter(papers)

\* the relation cues of a list of evidence sentences, and their priors
CueCounts(ev) == [k \in 1..Len(ev) |-> ev[k].relation_cue_count]
Priors(ev) == [k \in 1..Len(ev) |-> ev[k].study_type_prior]

\* C21: a consolidated entry's relation_bonus is 0.1 times the relation cues
\* of all the evidence sentences it holds, and its study_type_prior is the
\* highest study_type_prior among the chunks of its document.
C21_MergedBonusAndPriorCoverGroup ==
  DedupDone =>
    \A i \in 1..Len(DedupOutput) :
       /\ DedupOutput[i].relation_bonus
            = RelationCueWeight * SumSeq(CueCounts(DedupOutput[i].evidence_sentences))
       /\ DedupOutput[i].study_type_prior
            = MaxSeq(Priors(DedupOutput[i].evidence_sentences))

\* C22: every chunk the filter built and every entry _deduplicate_chunks
\* returns has total_score = cross_encoder_score + relation_bonus +
\* study_type_prior, at every point of the consolidation loop.
C22_ScoreConsistency ==
  (variant = "dedup" /\ rpc \in {"dedup", "deduplicated", "gated"}) =>
    /\ \A o \in 1..Len(objs) :
          objs[o].total_score
            = objs[o].cross_encoder_score + objs[o].relation_bonus
                + objs[o].study_type_prior
    /\ \A i \in 1..Len(DedupOutput) :
          DedupOutput[i].total_score
            = DedupOutput[i].cross_encoder_score + DedupOutput[i].relation_bonus
                + DedupOutput[i].study_type_prior

\* a consolidated entry with a relation bonus and a study-type prior
C22_Witness ==
  /\ DedupDone
  /\ \E i \in 1..Len(DedupOutput) :
        /\ Merged(DedupOutput[i])
        /\ DedupOutput[i].relation_bonus > 0
        /\ DedupOutput[i].study_type_prior > 0

\* the evidence sentences of the input chunks of document d from position k
\* on, in input order
RECURSIVE GroupEvidence(_, _, _)
GroupEvidence(input, d, k) ==
  IF k > Len(input) THEN << >>
  ELSE (IF input[k].doc_id = d THEN input[k].evidence_sentences ELSE << >>)
       \o GroupEvidence(input, d, k + 1)

\* C23: consolidation neither loses nor duplicates evidence: an entry holds
\* the evidence sentences of the input chunks of its document, in input
\* order; output and input hold equally many evidence sentences; an entry's
\* evidence_count is the length of its evidence_sentences.
C23_EvidenceConserved ==
  DedupDone =>
    /\ \A i \in 1..Len(DedupOutput) :
          /\ DedupOutput[i].evidence_sentences
               = GroupEvidence(DedupInput, DedupOutput[i].doc_id, 1)
          /\ DedupOutput[i].evidence_count
               = Len(DedupOutput[i].evidence_sentences)
    /\ SumSeq([i \in 1..Len(DedupOutput) |-> Len(DedupOutput[i].evidence_sentences)])
         = SumSeq([k \in 1..Len(DedupInput) |-> Len(DedupInput[k].evidence_sentences)])

\* an entry consolidated from three chunks, next to another entry
C23_Witness ==
  /\ DedupDone
  /\ Len(DedupOutput) >= 2
  /\ \E i \in 1..Len(DedupOutput) :
        /\ Merged(DedupOutput[i])
        /\ DedupOutput[i].evidence_count >= 3

\* ------------------------------------------------------------ C27, C28
\* C27: the deduplicated list has as many distinct doc_ids as entries, so
\* the distinct-document check never rejects what the chunk-count check
\* let through: the outcome is insufficient exactly when there are fewer
\* than min_chunks entries.
C27_DiversityNeverDecides ==
  /\ DedupDone =>
        /\ DistinctDocs(DedupOutput) = Len(DedupOutput)
        /\ Len(DedupOutput) >= min_chunks => DistinctDocs(DedupOutput) >= min_docs
  /\ (variant = "dedup" /\ rpc = "gated") =>
        (gate.sufficient <=> Len(DedupOutput) >= min_chunks)

\* the chunk-count check passed in the deduplicated pipeline
C27_Witness ==
  /\ variant = "dedup"
  /\ rpc = "gated"
  /\ gate.sufficient
  /\ Len(DedupOutput) >= min_chunks
  /\ DistinctDocs(DedupOutput) = Len(DedupOutput)

\* the ids of the input chunks whose evidence an entry holds
ChunksIn(entry) ==
  { entry.evidence_sentences[k].chunk_id : k \in 1..Len(entry.evidence_sentences) }

\* C28: two input chunks end up in the same entry exactly when their doc_ids
\* are equal, the empty doc_id included: an entry holds chunks of its own
\* doc_id only, no two entries have the same doc_id, and no chunk is left
\* out; so the chunks of all hits without a pmid make one entry, which the
\* gate counts as one document.
C28_MergedIffSameDocId ==
  DedupDone =>
    /\ \A i \in 1..Len(DedupOutput) :
          \A c \in ChunksIn(DedupOutput[i]) : papers[c].pmid = DedupOutput[i].doc_id
    /\ \A i, j \in 1..Len(DedupOutput) :
          i # j => /\ DedupOutput[i].doc_id # DedupOutput[j].doc_id
                   /\ ChunksIn(DedupOutput[i]) \cap ChunksIn(DedupOutput[j]) = {}
    /\ UNION { ChunksIn(DedupOutput[i]) : i \in 1..Len(DedupOutput) } = WithEvidence
    /\ Cardinality({ i \in 1..Len(DedupOutput) : DedupOutput[i].doc_id = EmptyPmid }) <= 1
    /\ DistinctDocs(DedupOutput) = Len(DedupOutput)

\* two hits without a pmid, different papers, are one entry
C28_Witness ==
  /\ DedupDone
  /\ \E a, b \in 1..Len(papers) :
        /\ a # b
        /\ papers[a].pmid = EmptyPmid /\ papers[b].pmid = EmptyPmid
        /\ papers[a].score # papers[b].score
        /\ a \in WithEvidence /\ b \in WithEvidence
  /\ \E i \in 1..Len(DedupOutput) :
        /\ DedupOutput[i].doc_id = EmptyPmid
        /\ Merged(DedupOutput[i])

\* ------------------------------------------------------------------- C24
\* s matches the k-th unrelated-disease pattern
NamesDisease(s, k) == re_search_word(str_lower(s), negative_inflammation_patterns[k])

\* s matches one of the positive inflammation patterns
NamesInflammation(s) ==
  \E i \in DOMAIN inflammation_patterns :
     re_search_word(str_lower(s), inflammation_patterns[i])

\* C24: when the X side is an inflammation term, every kept sentence matches
\* a positive inflammation pattern, and every unrelated disease it names is
\* named in the original query too.
C24_UnrelatedDiseaseNeedsSameDiseaseInQuery ==
  (tpc = "filtered" /\ _is_inflammation_query(entities)) =>
     \A n \in 1..Len(kept) :
        /\ NamesInflammation(kept[n])
        /\ \A k \in DOMAIN negative_inflammation_patterns :
              NamesDisease(kept[n], k) => NamesDisease(entities.original_query, k)


\* the patterns of compositional_patterns that match query_lower at all
MatchingPatterns(query_lower) ==
  { n \in DOMAIN compositional_patterns :
       re_search_groups(compositional_patterns[n], query_lower) # None }

\* the first compositional pattern that matches captures overlapping X and Y
FirstMatchOverlaps(query_lower) ==
  /\ MatchingPatterns(query_lower) # {}
  /\ LET n == CHOOSE a \in MatchingPatterns(query_lower) :
                 \A b \in MatchingPatterns(query_lower) : a <= b
         match == re_search_groups(compositional_patterns[n], query_lower)
     IN ~_are_distinct_entities(str_strip(match.g1), str_strip(match.g2))

\* C25: overlap guard: when the first compositional pattern that matches a
\* query captures X and Y that overlap by more than 30% of the smaller word
\* set, extract_entities returns a single-entity result (is_compositional
\* false), whatever the later patterns would capture.
C25_OverlapFallsThroughToSingleEntity ==
  (qpc = "parsed" /\ FirstMatchOverlaps(str_strip(str_lower(typed))))
     => ~parsed.is_compositional

\* C26: ordering within one request: a synthesis task exists only after
\* retrieve has returned and its context is stored; both tasks are created
\* together, before gather is awaited; a response of a request that got a
\* context is assembled only when both tasks have completed, with a result
\* or an exception; a task waiting for its completion call can go on whatever
\* the state of the other task.
C26_RequestOrdering ==
  /\ \A t \in TaskNames :
        tasks[t].state # "none" =>
           /\ rpc = "returned"
           /\ context \in DOMAIN _contexts
           /\ \A u \in TaskNames : tasks[u].state # "none"
  /\ pc = "gathering" => \A t \in TaskNames : tasks[t].state # "none"
  /\ (result # None /\ result.success) =>
        \A t \in TaskNames : tasks[t].state \in {"done", "raised"}
  /\ \A t \in TaskNames :
        (pc = "gathering" /\ tasks[t].state = "awaiting") => ENABLED LLMReturns(t)

\* the response is assembled from the generated texts of both tasks
C26_Witness ==
  /\ pc = "returned"
  /\ result.success
  /\ \A t \in TaskNames : tasks[t].state = "done"
  /\ result.summary.kind = "generated"
  /\ result.answer.kind = "generated"
  /\ Len(result.summary.tokens) = 1
  /\ Len(result.answer.tokens) = 3

\* C29: a single-entity query passes neither the sentence filter nor the
\* gate: when retrieve returns for it, the stored context's selected_chunks
\* are the first min(n, max_chunks) hits in backend order, numbered from 1,
\* the context is not marked insufficient_evidence and has no enhanced
\* chunks; with no hits (or a failed search) selected_chunks is empty.
C29_SingleEntityTakesRawHits ==
  [][(pc = "retrieving" /\ rpc = "searched" /\ query = "how does x work") =>
       /\ rpc' = "returned"
       /\ context' \in DOMAIN _contexts'
       /\ LET ctx == _contexts'[context']
              taken == IF Len(papers) < max_chunks THEN Len(papers) ELSE max_chunks
          IN /\ ctx.selected_chunks
                  = [i \in 1..taken |-> [id |-> i, pmid_or_doi |-> papers[i].pmid]]
             /\ ~ctx.insufficient_evidence
             /\ ctx.evidence_count = 0
             /\ ctx.enhanced_chunks = None
             /\ ctx.query = query]_vars

\* a single-entity request whose context holds max_chunks raw hits
C29_Witness ==
  /\ query = "how does x work"
  /\ rpc = "returned"
  /\ context \in DOMAIN _contexts
  /\ Len(_contexts[context].selected_chunks) = max_chunks
  /\ \A i \in 1..max_chunks : _contexts[context].selected_chunks[i].id = i
  /\ ~_contexts[context].insufficient_evidence

\* the entries of the registry older than _max_age at time t
OlderThanMaxAge(t) ==
  { r \in DOMAIN _contexts : t - _contexts[r].created_at > _max_age }

\* C30: cleanup_old_contexts removes exactly the entries whose age is
\* strictly greater than _max_age and leaves every other entry as it is;
\* validate_context on a removed request_id raises "Invalid request_id".
\* Run in one piece on any registry the program reaches, and run loop by
\* loop next to the other threads: the first loop collects exactly the
\* entries older than _max_age, nothing changes the collection before the
\* second loop, the second loop removes exactly the collected entries, and
\* no entry leaves the registry in any other step.
C30_CleanupRemovesExactlyTheExpired ==
  [][/\ LET after == cleanup_old_contexts(_contexts, now)
        IN /\ DOMAIN after = DOMAIN _contexts \ OlderThanMaxAge(now)
           /\ \A r \in DOMAIN after : after[r] = _contexts[r]
           /\ \A r \in OlderThanMaxAge(now) :
                 validate_context(after, r)
                   = [raised |-> TRUE, error |-> "Invalid request_id"]
     /\ ("to_remove" \notin DOMAIN sweep /\ "to_remove" \in DOMAIN sweep') =>
           /\ sweep'.to_remove = OlderThanMaxAge(now)
           /\ _contexts' = _contexts
     /\ ("to_remove" \in DOMAIN sweep /\ "to_remove" \in DOMAIN sweep') =>
           /\ sweep' = sweep
           /\ sweep.to_remove \subseteq DOMAIN _contexts'
     /\ ("to_remove" \in DOMAIN sweep /\ "to_remove" \notin DOMAIN sweep') =>
           /\ DOMAIN _contexts' = DOMAIN _contexts \ sweep.to_remove
           /\ sweep.to_remove \subseteq OlderThanMaxAge(now)
           /\ \A r \in DOMAIN _contexts' : _contexts'[r] = _contexts[r]
           /\ \A r \in sweep.to_remove :
                 validate_context(_contexts', r)
                   = [raised |-> TRUE, error |-> "Invalid request_id"]
     /\ DOMAIN _contexts \ DOMAIN _contexts' # {} => "to_remove" \in DOMAIN sweep
    ]_vars

\* after a sweep one context is gone and one of age exactly _max_age is left
C30_Witness ==
  /\ sweep = None
  /\ Len(created_log) = 2
  /\ created_log[1] \notin DOMAIN _contexts
  /\ created_log[2] \in DOMAIN _contexts
  /\ now - _contexts[created_log[2]].created_at = _max_age
  /\ validate_context(_contexts, created_log[1]).raised

====
